---- MODULE Spec2Model ----
(***************************************************************************)
(* Model of the Kusto MCP router's supervision core:                       *)
(*   DownstreamManager (src/src/downstream-manager.ts)                     *)
(*   HealthMonitor     (src/src/health-monitor.ts)                         *)
(*   shutdown          (src/src/lifecycle.ts), main (src/src/index.ts)     *)
(* One step of the model is one run-to-completion turn of the Node event   *)
(* loop: a timer or child-process event together with every continuation   *)
(* it resumes, up to the next await that has to wait for I/O or a timer.   *)
(***************************************************************************)
EXTENDS Naturals, Integers, Sequences, FiniteSets, Bags, TLC

\* ---------------------------------------------------------------- bounds
MaxSpawn == 2              \* child processes spawned per endpoint
MaxTicks == 3              \* executions of _checkAll in flight at once
maxReconnectBackoffSeconds == 4   \* RouterConfig.maxReconnectBackoffSeconds

\* ------------------------------------------------------------- constants
PingFailureThreshold == 3  \* downstream-manager.ts:354

\* RouterConfig.mappings, by normalized cluster URL, in configuration order.
mappings == << "c1" >>
Urls == { mappings[i] : i \in 1..Len(mappings) }

ConnectionStatus == { "Connected", "Connecting", "Failed", "Disconnected" }

VARIABLES
  phase,              \* position of main() / shutdown()
  shutdownInProgress, \* lifecycle.ts: shutdownInProgress
  exitCode,           \* argument of process.exit (-1: the process runs)
  dsKeys,             \* keys of DownstreamManager._downstreams, insertion order
  downstreams,        \* the DownstreamState objects, by normalized URL
  procs,              \* the child processes spawned for each endpoint
  onDownstreamExit,   \* DownstreamManager._onDownstreamExit is set
  initTasks,          \* connection attempts of initializeAll in flight
  rc,                 \* reconnect() calls in flight, per endpoint
  sd,                 \* teardowns of shutdownAll in flight, per endpoint
  running,            \* HealthMonitor._running
  interval,           \* HealthMonitor._interval is set
  tickers,            \* number of armed setInterval timers
  reconnectBackoffs,  \* HealthMonitor._reconnectBackoffs (0: no entry)
  reconnectTimers,    \* HealthMonitor._reconnectTimers (0: no entry, else the handle)
  armed,              \* armed setTimeout timers of _scheduleReconnect, per endpoint
  ticks,              \* executions of _checkAll awaiting a ping (a bag)
  ev,                 \* what the last step returned to its caller
  mergedTools,        \* ToolRouter._mergedTools
  routableTools,      \* ToolRouter._routableTools
  fanOutTools,        \* ToolRouter._fanOutTools
  clusterUrls,        \* what DownstreamManager.getClusterUrls returns to the router
  rev,                \* the router's last operation: its inputs, calls and result
  config,             \* RouterConfig.mappings as given on the command line
  dsMap,              \* DownstreamManager._downstreams of a manager with these mappings
  mgrPhase,           \* position of that manager's initializeAll
  inflight,           \* its callTool or callToolOnAll in flight
  mev                 \* what its last step returned to the caller

vars == << phase, shutdownInProgress, exitCode, dsKeys, downstreams, procs, onDownstreamExit, initTasks, rc, sd,
           running, interval, tickers, reconnectBackoffs, reconnectTimers, armed,
           ticks, ev, mergedTools, routableTools, fanOutTools, clusterUrls, rev,
           config, dsMap, mgrPhase, inflight, mev >>

routerVars == << mergedTools, routableTools, fanOutTools, clusterUrls, rev >>

managerVars == << config, dsMap, mgrPhase, inflight, mev >>

supervisorVars ==
  << phase, shutdownInProgress, exitCode, dsKeys, downstreams, procs, onDownstreamExit,
     initTasks, rc, sd, running, interval, tickers, reconnectBackoffs, reconnectTimers,
     armed, ticks, ev >>


\* ------------------------------------------------------------ data model
NoRef == 0

\* DownstreamState as initializeAll creates it.  lastHeartbeat is "null", or
\* "now" for a timestamp taken in the current ticker period, or "past" for an
\* earlier one.
NewState ==
  [ client |-> NoRef, transport |-> NoRef, process |-> NoRef,
    status |-> "Connecting", lastHeartbeat |-> "null",
    consecutiveFailures |-> 0, reconnecting |-> FALSE ]

\* A child process with the protocol client attached to its stdio.
\*   alive   the process has not exited
\*   killed  ChildProcess.killed: a signal was delivered by kill()
\*   signal  the last signal sent
\*   closed  client.close() was called on its client
\*   watcher the exit listener of _connectDownstream is installed
ExitedProc ==
  [ alive |-> FALSE, killed |-> FALSE, signal |-> "none", closed |-> FALSE, watcher |-> FALSE ]
NewProc ==
  [ alive |-> TRUE, killed |-> FALSE, signal |-> "none", closed |-> FALSE, watcher |-> FALSE ]

\* What a step lets its caller and the registered callbacks observe:
\*   op, url, val  the call that returned in this step and its result
\*   d             for a reconnect, the delay of the timer that asked for it
\*   cb            the arguments of the exit callback's invocations, in order
\*   sched         the outcome of each call of _scheduleReconnect, in order
NoEv == [ op |-> "none", url |-> "", val |-> FALSE, d |-> 0, cb |-> << >>, sched |-> << >> ]
Ev(op, u, val, d, S) ==
  [ op |-> op, url |-> u, val |-> val, d |-> d, cb |-> S.cb, sched |-> S.sched ]

Min(a, b) == IF a < b THEN a ELSE b

RemoveAt(s, i) == SubSeq(s, 1, i - 1) \o SubSeq(s, i + 1, Len(s))

\* What the router has done last:
\*   op      "refresh" or "routeCall"
\*   base    for a refresh, the tool list getToolDefinitions returned
\*   tool, args   for a call, the caller's tool name and argument map
\*   calls   the supervisor calls the operation made, in order
\*   result  the result returned to the caller
\*   caller  the caller's argument object when the call has returned
NoREv ==
  [ op |-> "none", base |-> << >>, tool |-> "", args |-> << >>, calls |-> << >>,
    result |-> << >>, caller |-> << >> ]

\* ------------------------------------------------------------------ Init
\* The ToolRouter as constructed (tool-router.ts:17-19).
RouterNew ==
  /\ mergedTools = << >>
  /\ routableTools = { }
  /\ fanOutTools = { }
  /\ rev = NoREv

\* What the last step of the manager with several mappings returned:
\*   op         "initializeAll", "callTool" or "callToolOnAll"
\*   url        for callTool, the cluster URL it was called with
\*   connected  for callToolOnAll, the keys that passed its filter
\*   invoked    the keys of the records whose client.callTool was invoked
\*   parts      the result of each per-endpoint call, in order
\*   result     the result returned to the caller
\*   raised     the returned promise was rejected
NoMEv ==
  [ op |-> "none", url |-> << >>, connected |-> << >>, invoked |-> << >>,
    parts |-> << >>, result |-> << >>, raised |-> FALSE ]

NoCall == [ kind |-> "none", url |-> << >>, connected |-> << >>, parts |-> << >> ]

\* A DownstreamManager as constructed (downstream-manager.ts:63-69), on no
\* mappings: the manager the supervisor variables describe stands for it.
ManagerNew ==
  /\ dsMap = << >>
  /\ mgrPhase = "new"
  /\ inflight = NoCall
  /\ mev = NoMEv

SupervisorNew ==
  /\ phase = "new"
  /\ shutdownInProgress = FALSE
  /\ exitCode = -1
  /\ dsKeys = << >>
  /\ downstreams = [ u \in Urls |-> NewState ]
  /\ procs = [ u \in Urls |-> << >> ]
  /\ onDownstreamExit = FALSE
  /\ initTasks = [ u \in Urls |-> << >> ]
  /\ rc = [ u \in Urls |-> << >> ]
  /\ sd = [ u \in Urls |-> << >> ]
  /\ running = FALSE
  /\ interval = FALSE
  /\ tickers = 0
  /\ reconnectBackoffs = [ u \in Urls |-> 0 ]
  /\ reconnectTimers = [ u \in Urls |-> 0 ]
  /\ armed = [ u \in Urls |-> << >> ]
  /\ ticks = EmptyBag
  /\ ev = NoEv

Init ==
  /\ SupervisorNew
  /\ RouterNew
  /\ clusterUrls = << >>
  /\ ManagerNew
  /\ config = << >>

\* ------------------------------------------------- the mutable state, as a value
\* The operators below are the synchronous stretches of the source's functions:
\* each takes the state of the supervisor and health loop and returns the state
\* it leaves behind.
Cur ==
  [ phase |-> phase, shutdownInProgress |-> shutdownInProgress, exitCode |-> exitCode,
    dsKeys |-> dsKeys, downstreams |-> downstreams, procs |-> procs,
    initTasks |-> initTasks, rc |-> rc, sd |-> sd,
    running |-> running, interval |-> interval, tickers |-> tickers,
    reconnectBackoffs |-> reconnectBackoffs, reconnectTimers |-> reconnectTimers,
    armed |-> armed, ticks |-> ticks, onDownstreamExit |-> onDownstreamExit,
    cb |-> << >>, sched |-> << >> ]

Becomes(S) ==
  /\ ticks' = S.ticks
  /\ onDownstreamExit' = S.onDownstreamExit
  /\ phase' = S.phase
  /\ shutdownInProgress' = S.shutdownInProgress
  /\ exitCode' = S.exitCode
  /\ dsKeys' = S.dsKeys
  /\ downstreams' = S.downstreams
  /\ procs' = S.procs
  /\ initTasks' = S.initTasks
  /\ rc' = S.rc
  /\ sd' = S.sd
  /\ running' = S.running
  /\ interval' = S.interval
  /\ tickers' = S.tickers
  /\ reconnectBackoffs' = S.reconnectBackoffs
  /\ reconnectTimers' = S.reconnectTimers
  /\ armed' = S.armed
  /\ UNCHANGED << routerVars, managerVars >>

Task(pc, p, d) == [ pc |-> pc, p |-> p, d |-> d ]

\* --------------------------------------------------------- HealthMonitor
\* clearTimeout(handle): the first armed timer with that handle is disarmed.
RECURSIVE ClearTimeout(_, _)
ClearTimeout(q, h) ==
  IF q = << >> THEN << >>
  ELSE IF Head(q) = h THEN Tail(q)
       ELSE << Head(q) >> \o ClearTimeout(Tail(q), h)

\* _scheduleReconnect without the test for a pending timer.
scheduleReconnect_noPendingTest(S, u) ==
  LET currentBackoff ==
        IF S.reconnectBackoffs[u] = 0 THEN 1 ELSE S.reconnectBackoffs[u]
  IN  [ S EXCEPT !.armed[u] = Append(@, currentBackoff),
                 !.reconnectTimers[u] = currentBackoff,
                 !.sched = Append(@, "armed") ]

\* HealthMonitor._scheduleReconnect, lines 127-138 and 170-177: the arming.
scheduleReconnect(S, u) ==
  IF S.reconnectTimers[u] # 0
  THEN [ S EXCEPT !.sched = Append(@, "kept") ]
  ELSE LET currentBackoff ==
             IF S.reconnectBackoffs[u] = 0 THEN 1 ELSE S.reconnectBackoffs[u]
       IN  [ S EXCEPT !.armed[u] = Append(@, currentBackoff),
                      !.reconnectTimers[u] = currentBackoff,
                      !.sched = Append(@, "armed") ]

\* An exit callback that schedules whether or not the loop is running.
exitCallback_alwaysSchedules(S, u) ==
  scheduleReconnect(S, u)

\* The callback the constructor registers with the supervisor.
exitCallback(S, u) ==
  IF S.running THEN scheduleReconnect(S, u) ELSE S

\* HealthMonitor._scheduleReconnect, lines 150-169: what the timer callback
\* does with the result of reconnect(); d is its captured currentBackoff.
afterReconnect(S, u, d, success) ==
  IF success
  THEN [ S EXCEPT !.reconnectBackoffs[u] = 0 ]
  ELSE LET S1 == [ S EXCEPT !.reconnectBackoffs[u] =
                                Min(d * 2, maxReconnectBackoffSeconds) ]
       IN  IF S1.running THEN scheduleReconnect(S1, u) ELSE S1

\* A start that does not look at _running and arms another ticker.
hmStart_noRunningTest(S) ==
  [ S EXCEPT !.running = TRUE, !.interval = TRUE, !.tickers = @ + 1 ]

hmStart(S) ==
  IF S.running THEN S
  ELSE [ S EXCEPT !.running = TRUE, !.interval = TRUE, !.tickers = @ + 1 ]

hmStop(S) ==
  IF ~S.running THEN S
  ELSE [ S EXCEPT !.running = FALSE,
                  !.interval = FALSE,
                  !.tickers = IF S.interval THEN @ - 1 ELSE @,
                  !.armed = [ u \in Urls |->
                                IF S.reconnectTimers[u] # 0
                                THEN ClearTimeout(S.armed[u], S.reconnectTimers[u])
                                ELSE S.armed[u] ],
                  !.reconnectTimers = [ u \in Urls |-> 0 ],
                  !.reconnectBackoffs = [ u \in Urls |-> 0 ] ]

\* ----------------------------------------------------- DownstreamManager
\* _connectDownstream, lines 131-197: the transport spawns the child.  The result
\* names the child (0 when no child could be spawned).
connectStart(S, u) ==
  IF Len(S.procs[u]) >= MaxSpawn
  THEN [ S |-> S, p |-> 0 ]
  ELSE [ S |-> [ S EXCEPT !.procs[u] = Append(@, NewProc) ], p |-> Len(S.procs[u]) + 1 ]

\* A _connectDownstream that does not reset the failure counter.
connectInstall_keepsCounter(S, u, p) ==
  [ S EXCEPT !.downstreams[u].client = p,
             !.downstreams[u].transport = p,
             !.downstreams[u].process = p,
             !.downstreams[u].status = "Connected",
             !.downstreams[u].lastHeartbeat = "now",
             !.procs[u][p].watcher = TRUE ]

\* _connectDownstream, lines 207-239: the record is filled in and the exit
\* watcher installed on the child.
connectInstall(S, u, p) ==
  [ S EXCEPT !.downstreams[u].client = p,
             !.downstreams[u].transport = p,
             !.downstreams[u].process = p,
             !.downstreams[u].status = "Connected",
             !.downstreams[u].lastHeartbeat = "now",
             !.downstreams[u].consecutiveFailures = 0,
             !.procs[u][p].watcher = TRUE ]

\* An exit watcher that keeps the client reference.
exitWatcher_keepsClient(S, u) ==
  LET S1 == [ S EXCEPT !.downstreams[u].status = "Disconnected",
                       !.downstreams[u].process = NoRef ]
  IN  IF S.onDownstreamExit
      THEN exitCallback([ S1 EXCEPT !.cb = Append(@, u) ], u)
      ELSE S1

\* The exit watcher, lines 223-238.
exitWatcher(S, u) ==
  LET S1 == [ S EXCEPT !.downstreams[u].status = "Disconnected",
                       !.downstreams[u].client = NoRef,
                       !.downstreams[u].transport = NoRef,
                       !.downstreams[u].process = NoRef ]
  IN  IF S.onDownstreamExit
      THEN exitCallback([ S1 EXCEPT !.cb = Append(@, u) ], u)
      ELSE S1

\* A teardown that forgets to drop the child-process reference.
cleanupClear_keepsProcess(S, u) ==
  [ S EXCEPT !.downstreams[u].client = NoRef,
             !.downstreams[u].transport = NoRef ]

\* _cleanupDownstream, lines 312-314.
cleanupClear(S, u) ==
  [ S EXCEPT !.downstreams[u].client = NoRef,
             !.downstreams[u].transport = NoRef,
             !.downstreams[u].process = NoRef ]

\* ChildProcess.kill(sig): delivered only to a live child, and then killed is set.
Kill(S, u, p, sig) ==
  IF S.procs[u][p].alive
  THEN [ S EXCEPT !.procs[u][p].killed = TRUE, !.procs[u][p].signal = sig ]
  ELSE S

\* _cleanupDownstream, lines 288-314, up to the wait for the child's exit.
cleanupKill(S, u) ==
  LET p == S.downstreams[u].process IN
  IF p # NoRef /\ ~S.procs[u][p].killed
  THEN [ S |-> Kill(S, u, p, "SIGTERM"), pc |-> "waitExit", p |-> p ]
  ELSE [ S |-> cleanupClear(S, u), pc |-> "done", p |-> 0 ]

\* _cleanupDownstream, lines 280-283, up to the await of client.close().
cleanupStart(S, u) ==
  LET c == S.downstreams[u].client IN
  IF c # NoRef
  THEN [ S |-> [ S EXCEPT !.procs[u][c].closed = TRUE ], pc |-> "close", p |-> c ]
  ELSE cleanupKill(S, u)

\* The 5 s timer of _cleanupDownstream, lines 293-298.
cleanupTimeout(S, u) ==
  LET p == S.downstreams[u].process IN
  cleanupClear(IF p # NoRef /\ ~S.procs[u][p].killed
               THEN Kill(S, u, p, "SIGKILL") ELSE S, u)

InKeys(S, u) == \E i \in 1..Len(S.dsKeys) : S.dsKeys[i] = u

\* shutdownAll, lines 547-548, followed by process.exit of its caller, with 0
\* in shutdown (lifecycle.ts:59) and 1 in main (index.ts:135): every teardown
\* has settled.
shutdownFinish(S) ==
  IF S.phase = "shutdown" /\ \A u \in Urls : S.sd[u] = << >>
  THEN [ S EXCEPT !.dsKeys = << >>, !.phase = "exited",
                  !.exitCode = IF S.shutdownInProgress THEN 0 ELSE 1 ]
  ELSE S

\* shutdownAll, lines 531-545: the teardown of every record is started.
RECURSIVE shutdownEach(_, _)
shutdownEach(S, ks) ==
  IF ks = << >> THEN S
  ELSE LET u == Head(ks)
           r == cleanupStart(S, u)
       IN  shutdownEach(IF r.pc = "done" THEN r.S
                        ELSE [ r.S EXCEPT !.sd[u] = Append(@, Task(r.pc, r.p, 0)) ],
                        Tail(ks))

shutdownAll(S) ==
  shutdownFinish(shutdownEach([ S EXCEPT !.phase = "shutdown" ], S.dsKeys))

\* initializeAll, lines 84-105: one record and one connection attempt per
\* mapping whose key is not yet in the map.
RECURSIVE initEach(_, _)
initEach(S, ms) ==
  IF ms = << >> THEN S
  ELSE LET u == Head(ms) IN
       IF InKeys(S, u) THEN initEach(S, Tail(ms))
       ELSE LET c == connectStart([ S EXCEPT !.dsKeys = Append(@, u),
                                             !.downstreams[u] = NewState ], u)
            IN  initEach([ c.S EXCEPT !.initTasks[u] = << Task("handshake", c.p, 0) >> ],
                         Tail(ms))

\* initializeAll, line 116, and main, lines 124-136: every attempt has settled.
initSettled(S) ==
  IF S.phase = "initializing" /\ \A u \in Urls : S.initTasks[u] = << >>
  THEN IF \E u \in Urls : InKeys(S, u) /\ S.downstreams[u].status = "Connected"
       THEN [ S EXCEPT !.phase = "ready" ]
       ELSE shutdownAll(S)
  ELSE S

\* _connectDownstream, lines 197-200, rejects at await position pc on child p.
\* The protocol client closes itself when its handshake fails; after a failed
\* tool listing nothing is closed and nothing refers to the child any more.
connectRejected(S, u, p, pc) ==
  IF pc = "handshake" /\ p # 0
  THEN [ S EXCEPT !.procs[u][p].closed = TRUE ]
  ELSE S

\* reconnect, line 264: the teardown returned, the connection attempt starts.
reconnectConnect(S, u, i) ==
  LET c == connectStart(S, u)
  IN  [ c.S EXCEPT !.rc[u][i] = Task("handshake", c.p, S.rc[u][i].d) ]

\* reconnect without the reconnecting guard.
reconnect_noGuard(S, u, d) ==
  IF ~InKeys(S, u) THEN [ S |-> S, ret |-> "false" ]
  ELSE LET S1 == [ S EXCEPT !.downstreams[u].reconnecting = TRUE,
                            !.rc[u] = Append(@, Task("start", 0, d)) ]
           i  == Len(S1.rc[u])
           r  == cleanupStart(S1, u)
       IN  [ S |-> IF r.pc = "done" THEN reconnectConnect(r.S, u, i)
                   ELSE [ r.S EXCEPT !.rc[u][i] = Task(r.pc, r.p, d) ],
             ret |-> "pending" ]

\* reconnect, lines 245-261, up to its first await.  ret is "false" when the
\* call returned at once and "pending" when it passed the guard.
reconnect(S, u, d) ==
  IF ~InKeys(S, u) THEN [ S |-> S, ret |-> "false" ]
  ELSE IF S.downstreams[u].reconnecting THEN [ S |-> S, ret |-> "false" ]
  ELSE LET S1 == [ S EXCEPT !.downstreams[u].reconnecting = TRUE,
                            !.rc[u] = Append(@, Task("start", 0, d)) ]
           i  == Len(S1.rc[u])
           r  == cleanupStart(S1, u)
       IN  [ S |-> IF r.pc = "done" THEN reconnectConnect(r.S, u, i)
                   ELSE [ r.S EXCEPT !.rc[u][i] = Task(r.pc, r.p, d) ],
             ret |-> "pending" ]

\* A reconnect whose catch block leaves the status alone.
reconnectReturn_keepsStatus(S, u, i, success) ==
  LET d  == S.rc[u][i].d
      S1 == [ S EXCEPT !.downstreams[u].reconnecting = FALSE,
                       !.rc[u] = RemoveAt(@, i) ]
  IN  afterReconnect(S1, u, d, success)

\* reconnect, lines 265-273, and the timer callback that awaited it.
reconnectReturn(S, u, i, success) ==
  LET d  == S.rc[u][i].d
      S1 == [ S EXCEPT !.downstreams[u].status = IF success THEN @ ELSE "Failed",
                       !.downstreams[u].reconnecting = FALSE,
                       !.rc[u] = RemoveAt(@, i) ]
  IN  afterReconnect(S1, u, d, success)

\* The teardown of task i of kind k ("rc" or "sd") on u has returned.
cleanupReturned(S, k, u, i) ==
  IF k = "rc" THEN reconnectConnect(S, u, i)
  ELSE shutdownFinish([ S EXCEPT !.sd[u] = RemoveAt(@, i) ])

\* Every teardown of kind k that waits for the exit of child p of u resumes.
RECURSIVE resumeWaiters(_, _, _, _, _)
resumeWaiters(S, k, u, p, i) ==
  IF i = 0 THEN S
  ELSE LET t == IF k = "rc" THEN S.rc[u][i] ELSE S.sd[u][i] IN
       resumeWaiters(IF t.pc = "waitExit" /\ t.p = p
                     THEN cleanupReturned(cleanupClear(S, u), k, u, i)
                     ELSE S,
                     k, u, p, i - 1)

\* A child process exits: its exit listeners run in the order of registration.
childExit(S, u, p) ==
  LET S0 == [ S EXCEPT !.procs[u][p] = ExitedProc ]
      S1 == IF S.procs[u][p].watcher THEN exitWatcher(S0, u) ELSE S0
      S2 == resumeWaiters(S1, "rc", u, p, Len(S1.rc[u]))
  IN  resumeWaiters(S2, "sd", u, p, Len(S2.sd[u]))

\* ping, lines 320-325: the precondition under which a ping is sent at all.
pingSends(S, u) ==
  /\ InKeys(S, u)
  /\ S.downstreams[u].client # NoRef
  /\ S.downstreams[u].status = "Connected"

\* ping, lines 342-344.
pingSucceeded(S, u) ==
  [ S EXCEPT !.downstreams[u].lastHeartbeat = "now",
             !.downstreams[u].consecutiveFailures = 0 ]

\* A ping failure that escalates one failure late.
pingFailed_lateEscalation(S, u) ==
  LET n == S.downstreams[u].consecutiveFailures + 1 IN
  [ S EXCEPT !.downstreams[u].consecutiveFailures = n,
             !.downstreams[u].status =
                 IF n > PingFailureThreshold THEN "Disconnected" ELSE "Failed" ]

\* ping, lines 345-359.
pingFailed(S, u) ==
  LET n == S.downstreams[u].consecutiveFailures + 1 IN
  [ S EXCEPT !.downstreams[u].consecutiveFailures = n,
             !.downstreams[u].status =
                 IF n >= PingFailureThreshold THEN "Disconnected" ELSE "Failed" ]

\* getConnections, lines 493-502: a copy of url and status of every record.
getConnections(S) ==
  [ i \in 1..Len(S.dsKeys) |->
      [ clusterUrl |-> S.dsKeys[i], status |-> S.downstreams[S.dsKeys[i]].status ] ]

\* _checkAll, lines 98-121: the loop over the copied connections, run until it
\* has to wait for a ping (conns is then what is left, its head being pinged on
\* client cl) or is through (conns empty).
RECURSIVE checkAll(_, _)
\* A _checkAll that leaves a Failed endpoint to itself.
checkAll_skipsFailed(S, conns) ==
  IF conns = << >> THEN [ S |-> S, conns |-> << >>, cl |-> NoRef ]
  ELSE LET c == Head(conns)
           u == c.clusterUrl
       IN  IF c.status = "Connected"
           THEN IF pingSends(S, u)
                THEN [ S |-> S, conns |-> conns, cl |-> S.downstreams[u].client ]
                ELSE checkAll(scheduleReconnect(S, u), Tail(conns))
           ELSE IF c.status = "Disconnected"
                THEN checkAll(IF S.reconnectTimers[u] = 0
                              THEN scheduleReconnect(S, u) ELSE S, Tail(conns))
                ELSE checkAll(S, Tail(conns))

checkAll(S, conns) ==
  IF conns = << >> THEN [ S |-> S, conns |-> << >>, cl |-> NoRef ]
  ELSE LET c == Head(conns)
           u == c.clusterUrl
       IN  IF c.status = "Connected"
           THEN IF pingSends(S, u)
                THEN [ S |-> S, conns |-> conns, cl |-> S.downstreams[u].client ]
                ELSE checkAll(scheduleReconnect(S, u), Tail(conns))
           ELSE IF c.status \in { "Failed", "Disconnected" }
                THEN checkAll(IF S.reconnectTimers[u] = 0
                              THEN scheduleReconnect(S, u) ELSE S, Tail(conns))
                ELSE checkAll(S, Tail(conns))

TickBag(r) ==
  IF r.conns = << >> THEN EmptyBag
  ELSE SetToBag({ [ conns |-> r.conns, cl |-> r.cl ] })

\* --------------------------------------------------------------- actions
Live == phase \notin { "new", "exited" }

TasksOf(k, u) == IF k = "init" THEN initTasks[u] ELSE IF k = "rc" THEN rc[u] ELSE sd[u]

\* The step to state S that reports the call op: S is computed once.
Step(S, op, u, val, d) ==
  \E s \in { S } : Becomes(s) /\ ev' = Ev(op, u, val, d, s)

\* main, index.ts:123-124: initializeAll starts every connection attempt.
InitializeAll ==
  /\ phase = "new"
  /\ Step(initSettled(initEach([ Cur EXCEPT !.phase = "initializing" ], mappings)),
          "initializeAll", "", FALSE, 0)

\* client.connect resolves: the handshake with the child is done.  Answers
\* come from children that have not exited.
HandshakeOk(k, u, i) ==
  /\ Live
  /\ TasksOf(k, u)[i].pc = "handshake"
  /\ TasksOf(k, u)[i].p # 0
  /\ procs[u][TasksOf(k, u)[i].p].alive
  /\ Step(IF k = "init" THEN [ Cur EXCEPT !.initTasks[u][i].pc = "listTools" ]
                        ELSE [ Cur EXCEPT !.rc[u][i].pc = "listTools" ],
          "none", "", FALSE, 0)

\* client.connect or client.listTools rejects: _connectDownstream throws.
\* initializeAll, lines 106-113, or reconnect, lines 266-273, catches it.
ConnectFail(k, u, i) ==
  /\ Live
  /\ TasksOf(k, u)[i].pc \in { "handshake", "listTools" }
  /\ LET S1 == connectRejected(Cur, u, TasksOf(k, u)[i].p, TasksOf(k, u)[i].pc) IN
     IF k = "init"
     THEN Step(initSettled([ S1 EXCEPT !.downstreams[u].status = "Failed",
                                       !.initTasks[u] = RemoveAt(@, i) ]),
               "connect", u, FALSE, 0)
     ELSE Step(reconnectReturn(S1, u, i, FALSE), "reconnect", u, FALSE, rc[u][i].d)

\* client.listTools resolves: the rest of _connectDownstream runs.
ListToolsOk(k, u, i) ==
  /\ Live
  /\ TasksOf(k, u)[i].pc = "listTools"
  /\ procs[u][TasksOf(k, u)[i].p].alive
  /\ LET S1 == connectInstall(Cur, u, TasksOf(k, u)[i].p) IN
     IF k = "init"
     THEN Step(initSettled([ S1 EXCEPT !.initTasks[u] = RemoveAt(@, i) ]),
               "connect", u, TRUE, 0)
     ELSE Step(reconnectReturn(S1, u, i, TRUE), "reconnect", u, TRUE, rc[u][i].d)

\* client.close() settles (its errors are ignored): the teardown goes on.
CloseDone(k, u, i) ==
  /\ Live
  /\ TasksOf(k, u)[i].pc = "close"
  /\ LET r == cleanupKill(Cur, u) IN
     Step(IF r.pc = "done" THEN cleanupReturned(r.S, k, u, i)
          ELSE IF k = "rc" THEN [ r.S EXCEPT !.rc[u][i] = Task(r.pc, r.p, @.d) ]
          ELSE [ r.S EXCEPT !.sd[u][i] = Task(r.pc, r.p, @.d) ],
          "none", "", FALSE, 0)

\* The 5 s grace period of a teardown expires before the child's exit.
GraceTimeout(k, u, i) ==
  /\ Live
  /\ TasksOf(k, u)[i].pc = "waitExit"
  /\ Step(cleanupReturned(cleanupTimeout(Cur, u), k, u, i), "graceTimeout", u, FALSE, 0)

\* A child process exits, by itself or after a signal.  val tells whether the
\* exit watcher was installed on it, d is 1 when the supervisor had closed or
\* signalled it and 0 when it exits by itself.
ChildExit(u, p) ==
  /\ Live
  /\ procs[u][p].alive
  /\ Step(childExit(Cur, u, p), "exit", u, procs[u][p].watcher,
          IF procs[u][p].killed \/ procs[u][p].closed THEN 1 ELSE 0)

\* main, index.ts:153-162: the health monitor is constructed and started.
MainStartHealth ==
  /\ phase = "ready"
  /\ Step(hmStart([ Cur EXCEPT !.phase = "serving", !.onDownstreamExit = TRUE ]),
          "start", "", TRUE, 0)

\* HealthMonitor.start and HealthMonitor.stop, called on the constructed monitor.
HmStart ==
  /\ phase = "serving"
  /\ Step(hmStart(Cur), "start", "", ~running, 0)

HmStop ==
  /\ phase = "serving"
  /\ Step(hmStop(Cur), "stop", "", running, 0)

\* A shutdown that does not look at shutdownInProgress.
shutdown_noFlagTest(S) ==
  hmStop([ S EXCEPT !.shutdownInProgress = TRUE, !.phase = "closing" ])

\* lifecycle.ts:31-45: shutdown up to its first await; the monitor is stopped
\* and the close of the upstream transport awaited.
shutdown(S) ==
  IF S.shutdownInProgress THEN S
  ELSE hmStop([ S EXCEPT !.shutdownInProgress = TRUE, !.phase = "closing" ])

\* SIGINT, SIGTERM, the close of stdin or an uncaught exception arrives
\* (lifecycle.ts:63-78); the handlers are registered once main has started the
\* health monitor.  val tells whether the health loop was running.
Signal ==
  /\ phase \in { "serving", "closing", "shutdown" }
  /\ Step(shutdown(Cur), IF shutdownInProgress THEN "signalIgnored" ELSE "shutdown",
          "", running, 0)

\* lifecycle.ts:51-59: the transport is closed, shutdownAll runs.
TransportClosed ==
  /\ phase = "closing"
  /\ Step(shutdownAll(Cur), "shutdownAll", "", FALSE, 0)

\* A ticker period is over: timestamps taken during it are no longer the
\* present time.
elapse(S) ==
  [ S EXCEPT !.downstreams = [ u \in Urls |->
      [ @[u] EXCEPT !.lastHeartbeat = IF @ = "now" THEN "past" ELSE @ ] ] ]

\* The ticker fires (health-monitor.ts:57-59): one execution of _checkAll
\* starts.  val tells whether an earlier execution was still in progress.
IntervalFire ==
  /\ Live
  /\ tickers > 0
  /\ BagCardinality(ticks) < MaxTicks
  /\ \E r \in { checkAll(elapse(Cur), getConnections(Cur)) } :
        Step([ r.S EXCEPT !.ticks = @ (+) TickBag(r) ], "tick", "", ticks # EmptyBag, 0)

\* The ping a tick waits for is answered in time.
PingOk(t) ==
  /\ Live
  /\ BagIn(t, ticks)
  /\ LET u == Head(t.conns).clusterUrl IN
     /\ procs[u][t.cl].alive /\ ~procs[u][t.cl].closed
     /\ LET S1 == pingSucceeded(Cur, u)
            r  == checkAll([ S1 EXCEPT !.reconnectBackoffs[u] = 0 ], Tail(t.conns))
        IN  Step([ r.S EXCEPT !.ticks = (@ (-) SetToBag({ t })) (+) TickBag(r) ],
                 "ping", u, TRUE, 0)

\* The ping a tick waits for fails or runs into the ping timeout.
PingFail(t) ==
  /\ Live
  /\ BagIn(t, ticks)
  /\ LET u  == Head(t.conns).clusterUrl
         S1 == pingFailed(Cur, u)
         r  == checkAll(scheduleReconnect(S1, u), Tail(t.conns))
     IN  Step([ r.S EXCEPT !.ticks = (@ (-) SetToBag({ t })) (+) TickBag(r) ],
              "ping", u, FALSE, 0)

\* A timer callback that does not look at _running.
timerCallback_ignoresStop(S, u, d) ==
  LET S0 == [ S EXCEPT !.reconnectTimers[u] = 0 ]
      r  == reconnect(S0, u, d)
  IN  IF r.ret = "false"
      THEN [ S |-> afterReconnect(r.S, u, d, FALSE), op |-> "reconnectRejected" ]
      ELSE [ S |-> r.S, op |-> "reconnectCall" ]

\* A reconnect timer fires: the callback of _scheduleReconnect, lines 140-148,
\* and, when reconnect returns at once, lines 150-169.
timerCallback(S, u, d) ==
  LET S0 == [ S EXCEPT !.reconnectTimers[u] = 0 ] IN
  IF ~S0.running
  THEN [ S |-> S0, op |-> "timerAbort" ]
  ELSE LET r == reconnect(S0, u, d) IN
       IF r.ret = "false"
       THEN [ S |-> afterReconnect(r.S, u, d, FALSE), op |-> "reconnectRejected" ]
       ELSE [ S |-> r.S, op |-> "reconnectCall" ]

TimerFire(u, j) ==
  /\ Live
  /\ j \in 1..Len(armed[u])
  /\ LET d == armed[u][j]
         r == timerCallback([ Cur EXCEPT !.armed[u] = RemoveAt(@, j) ], u, d)
     IN  /\ r.op = "reconnectCall" => Len(procs[u]) < MaxSpawn
         /\ Step(r.S, r.op, u, FALSE, d)

Next ==
  \/ InitializeAll
  \/ \E k \in { "init", "rc" }, u \in Urls :
        \E i \in 1..Len(TasksOf(k, u)) : HandshakeOk(k, u, i)
  \/ \E k \in { "init", "rc" }, u \in Urls :
        \E i \in 1..Len(TasksOf(k, u)) : ConnectFail(k, u, i)
  \/ \E k \in { "init", "rc" }, u \in Urls :
        \E i \in 1..Len(TasksOf(k, u)) : ListToolsOk(k, u, i)
  \/ \E k \in { "rc", "sd" }, u \in Urls :
        \E i \in 1..Len(TasksOf(k, u)) : CloseDone(k, u, i)
  \/ \E k \in { "rc", "sd" }, u \in Urls :
        \E i \in 1..Len(TasksOf(k, u)) : GraceTimeout(k, u, i)
  \/ \E u \in Urls : \E p \in 1..Len(procs[u]) : ChildExit(u, p)
  \/ MainStartHealth
  \/ HmStart
  \/ HmStop
  \/ Signal
  \/ TransportClosed
  \/ IntervalFire
  \/ \E t \in BagToSet(ticks) : PingOk(t)
  \/ \E t \in BagToSet(ticks) : PingFail(t)
  \/ \E u \in Urls : \E j \in 1..Len(armed[u]) : TimerFire(u, j)

Spec == Init /\ [][Next]_vars

\* ------------------------------------------------------- the router serving
\* The router from its start for as long as no shutdown is asked for and the
\* monitor is not stopped, run with its default options.  A reconnect timer
\* fires whenever it is armed; a spawn beyond MaxSpawn fails (connectStart).

\* A timer that expires without its callback being run.
TimerExpires_callbackLost(u, j) ==
  /\ Live
  /\ j \in 1..Len(armed[u])
  /\ Step([ Cur EXCEPT !.armed[u] = RemoveAt(@, j) ], "none", u, FALSE, armed[u][j])

\* A reconnect timer expires: the callback of _scheduleReconnect, lines 140-170.
TimerExpires(u, j) ==
  /\ Live
  /\ j \in 1..Len(armed[u])
  /\ \E r \in { timerCallback([ Cur EXCEPT !.armed[u] = RemoveAt(@, j) ], u, armed[u][j]) } :
        Step(r.S, r.op, u, FALSE, armed[u][j])

\* The ticker fires when the previous pass is through: the default ping timeout
\* (10 s, index.ts:78-81) is shorter than the default interval (60 s, 73-76).
TickerFires == ticks = EmptyBag /\ IntervalFire

\* An await settles, one way or the other.
Connecting(k, u, i) == HandshakeOk(k, u, i) \/ ConnectFail(k, u, i)
Listing(k, u, i) == ListToolsOk(k, u, i) \/ ConnectFail(k, u, i)
Pinging(t) == PingOk(t) \/ PingFail(t)

NextServing ==
  \/ InitializeAll
  \/ \E k \in { "init", "rc" }, u \in Urls :
        \E i \in 1..Len(TasksOf(k, u)) : HandshakeOk(k, u, i)
  \/ \E k \in { "init", "rc" }, u \in Urls :
        \E i \in 1..Len(TasksOf(k, u)) : ConnectFail(k, u, i)
  \/ \E k \in { "init", "rc" }, u \in Urls :
        \E i \in 1..Len(TasksOf(k, u)) : ListToolsOk(k, u, i)
  \/ \E u \in Urls : \E i \in 1..Len(rc[u]) : CloseDone("rc", u, i)
  \/ \E u \in Urls : \E i \in 1..Len(rc[u]) : GraceTimeout("rc", u, i)
  \/ \E u \in Urls : \E p \in 1..Len(procs[u]) : ChildExit(u, p)
  \/ MainStartHealth
  \/ TickerFires
  \/ \E t \in BagToSet(ticks) : PingOk(t)
  \/ \E t \in BagToSet(ticks) : PingFail(t)
  \/ \E u \in Urls : \E j \in 1..Len(armed[u]) : TimerExpires(u, j)

SpecServing == Init /\ [][NextServing]_vars

\* What the event loop and the timeouts of the code guarantee: main goes on;
\* the ticker and armed timers fire; client.connect, listTools and close
\* settle; the grace timer of a teardown fires unless the child exits first;
\* a ping settles, by an answer or by the ping timeout.  Children exit or not.
FairServing ==
  /\ WF_vars(InitializeAll)
  /\ WF_vars(MainStartHealth)
  /\ WF_vars(TickerFires)
  /\ WF_vars(\E u \in Urls : \E j \in 1..Len(armed[u]) : TimerExpires(u, j))
  /\ WF_vars(\E k \in { "init", "rc" }, u \in Urls :
               \E i \in 1..Len(TasksOf(k, u)) : Connecting(k, u, i))
  /\ WF_vars(\E k \in { "init", "rc" }, u \in Urls :
               \E i \in 1..Len(TasksOf(k, u)) : Listing(k, u, i))
  /\ WF_vars(\E u \in Urls : \E i \in 1..Len(rc[u]) : CloseDone("rc", u, i))
  /\ WF_vars(\E u \in Urls : \E i \in 1..Len(rc[u]) : GraceTimeout("rc", u, i))
  /\ WF_vars(\E t \in BagToSet(ticks) : Pinging(t))

SpecServingFair == SpecServing /\ FairServing

\* ------------------------------------------------------------ ToolRouter
\* Strings the router computes on are sequences of characters.
\* String.prototype.toLowerCase, on the letters that occur.
toLowerCase(c) ==
  CASE c = "H" -> "h" [] c = "T" -> "t" [] c = "P" -> "p" [] c = "S" -> "s"
    [] c = "C" -> "c" [] OTHER -> c

\* String.prototype.trim.
RECURSIVE trimStart(_)
trimStart(x) == IF x # << >> /\ Head(x) = " " THEN trimStart(Tail(x)) ELSE x

RECURSIVE trimEnd(_)
trimEnd(x) ==
  IF x # << >> /\ x[Len(x)] = " " THEN trimEnd(SubSeq(x, 1, Len(x) - 1)) ELSE x

\* String.prototype.startsWith.
startsWith(x, pre) == Len(x) >= Len(pre) /\ SubSeq(x, 1, Len(pre)) = pre

\* replace(/\/+$/, ''): the trailing slashes are removed.
RECURSIVE stripSlashes(_)
stripSlashes(x) ==
  IF x # << >> /\ x[Len(x)] = "/" THEN stripSlashes(SubSeq(x, 1, Len(x) - 1)) ELSE x

Https == << "h", "t", "t", "p", "s", ":", "/", "/" >>
Http == << "h", "t", "t", "p", ":", "/", "/" >>

\* normalizeClusterUrl, downstream-manager.ts:43-50.
normalizeClusterUrl(url) ==
  LET lowered == [ i \in 1..Len(trimEnd(trimStart(url))) |->
                     toLowerCase(trimEnd(trimStart(url))[i]) ]
      prefixed == IF ~startsWith(lowered, Https) /\ ~startsWith(lowered, Http)
                  THEN Https \o lowered ELSE lowered
  IN  stripSlashes(prefixed)

\* Objects are functions from the keys they have to the values.
Has(o, k) == k \in DOMAIN o
Put(o, k, v) == [ x \in (DOMAIN o) \cup { k } |-> IF x = k THEN v ELSE o[x] ]
Del(o, k) == [ x \in (DOMAIN o) \ { k } |-> o[x] ]
Includes(q, x) == \E i \in 1..Len(q) : q[i] = x

\* A tool description is there and not the empty string.
Described(tool) == Has(tool, "description") /\ tool.description # ""

\* An _enhanceRoutableTool that adds cluster to required without looking.
enhanceRoutableTool_alwaysPush(tool, urls) ==
  LET schema0 == tool.inputSchema
      schema1 == IF Has(schema0, "properties") THEN schema0
                 ELSE Put(schema0, "properties", << >>)
      existingCluster == IF Has(schema1.properties, "cluster")
                         THEN schema1.properties.cluster ELSE << >>
      cluster == Put(Put(Put(existingCluster, "type", "string"),
                         "description", "one of the available clusters"),
                     "enum", urls)
      schema2 == Put(schema1, "properties", Put(schema1.properties, "cluster", cluster))
      schema3 == IF Has(schema2, "required") THEN schema2 ELSE Put(schema2, "required", << >>)
      schema4 == Put(schema3, "required", Append(schema3.required, "cluster"))
  IN  [ name |-> tool.name,
        description |-> IF Described(tool) THEN << tool.description, "routed" >>
                        ELSE << "routed" >>,
        inputSchema |-> schema4 ]

\* _enhanceRoutableTool, tool-router.ts:74-106.
enhanceRoutableTool(tool, urls) ==
  LET schema0 == tool.inputSchema
      schema1 == IF Has(schema0, "properties") THEN schema0
                 ELSE Put(schema0, "properties", << >>)
      existingCluster == IF Has(schema1.properties, "cluster")
                         THEN schema1.properties.cluster ELSE << >>
      cluster == Put(Put(Put(existingCluster, "type", "string"),
                         "description", "one of the available clusters"),
                     "enum", urls)
      schema2 == Put(schema1, "properties", Put(schema1.properties, "cluster", cluster))
      schema3 == IF Has(schema2, "required") THEN schema2 ELSE Put(schema2, "required", << >>)
      schema4 == IF Includes(schema3.required, "cluster") THEN schema3
                 ELSE Put(schema3, "required", Append(schema3.required, "cluster"))
  IN  [ name |-> tool.name,
        description |-> IF Described(tool) THEN << tool.description, "routed" >>
                        ELSE << "routed" >>,
        inputSchema |-> schema4 ]

\* _enhanceFanOutTool, tool-router.ts:113-134.
enhanceFanOutTool(tool, urls) ==
  LET schema0 == tool.inputSchema
      schema1 == IF Has(schema0, "properties") THEN schema0
                 ELSE Put(schema0, "properties", << >>)
      cluster == [ type |-> "string", description |-> "optional", enum |-> urls ]
      schema2 == Put(schema1, "properties", Put(schema1.properties, "cluster", cluster))
  IN  [ name |-> tool.name,
        description |-> IF Described(tool) THEN << tool.description, "all clusters" >>
                        ELSE << "all clusters" >>,
        inputSchema |-> schema2 ]

\* The test of tool-router.ts:43, tool.inputSchema.properties?.['cluster'].
hasClusterProperty(tool) ==
  /\ Has(tool.inputSchema, "properties")
  /\ Has(tool.inputSchema.properties, "cluster")

\* The router's fields as a value.
RouterCur ==
  [ mergedTools |-> mergedTools, routableTools |-> routableTools,
    fanOutTools |-> fanOutTools ]

\* refreshTools, tool-router.ts:29-66, on the list getToolDefinitions returned
\* and the URLs getClusterUrls returned.
refreshTools(R, baseTools, urls) ==
  IF Len(baseTools) = 0
  THEN [ R EXCEPT !.mergedTools = << >> ]
  ELSE LET routable == { baseTools[i].name : i \in { j \in 1..Len(baseTools) :
                                                       hasClusterProperty(baseTools[j]) } }
           fanOut == { baseTools[i].name : i \in { j \in 1..Len(baseTools) :
                                                     ~hasClusterProperty(baseTools[j]) } }
       IN  [ mergedTools |-> [ i \in 1..Len(baseTools) |->
                                 IF baseTools[i].name \in routable
                                 THEN enhanceRoutableTool(baseTools[i], urls)
                                 ELSE enhanceFanOutTool(baseTools[i], urls) ],
             routableTools |-> routable,
             fanOutTools |-> fanOut ]

\* A truthiness test that only looks for the key.
Truthy_keyPresent(args, k) == Has(args, k)

\* args['cluster'] is there and truthy.
Truthy(args, k) == Has(args, k) /\ args[k] # << >>

ErrorResult(kind) == [ isError |-> TRUE, text |-> kind ]

\* A _routeToCluster that forwards the arguments without the cluster key.
routeToCluster_stripsCluster(toolName, args, urls, res) ==
  IF ~Truthy(args, "cluster")
  THEN [ calls |-> << >>, result |-> ErrorResult("cluster parameter is required"),
         caller |-> args ]
  ELSE IF ~Includes(urls, normalizeClusterUrl(args.cluster))
  THEN [ calls |-> << >>, result |-> ErrorResult("not configured"), caller |-> args ]
  ELSE [ calls |-> << [ fn |-> "callTool", url |-> normalizeClusterUrl(args.cluster),
                        tool |-> toolName, args |-> Del(args, "cluster") ] >>,
         result |-> res, caller |-> args ]

\* _routeToCluster, tool-router.ts:181-224.  The result names the supervisor
\* calls made; res is what the supervisor returns from a call; caller is the
\* caller's argument object as the call leaves it.
routeToCluster(toolName, args, urls, res) ==
  IF ~Truthy(args, "cluster")
  THEN [ calls |-> << >>, result |-> ErrorResult("cluster parameter is required"),
         caller |-> args ]
  ELSE IF ~Includes(urls, normalizeClusterUrl(args.cluster))
  THEN [ calls |-> << >>, result |-> ErrorResult("not configured"), caller |-> args ]
  ELSE [ calls |-> << [ fn |-> "callTool", url |-> normalizeClusterUrl(args.cluster),
                        tool |-> toolName, args |-> args ] >>,
         result |-> res, caller |-> args ]

\* _routeFanOut, tool-router.ts:229-268.  The forwarded object is a copy
\* ({ ...args }) with the cluster key deleted.
routeFanOut(toolName, args, urls, res) ==
  IF Truthy(args, "cluster")
  THEN IF ~Includes(urls, normalizeClusterUrl(args.cluster))
       THEN [ calls |-> << >>, result |-> ErrorResult("not configured"), caller |-> args ]
       ELSE [ calls |-> << [ fn |-> "callTool", url |-> normalizeClusterUrl(args.cluster),
                             tool |-> toolName, args |-> Del(args, "cluster") ] >>,
              result |-> res, caller |-> args ]
  ELSE [ calls |-> << [ fn |-> "callToolOnAll", tool |-> toolName,
                        args |-> Del(args, "cluster") ] >>,
         result |-> res, caller |-> args ]

\* A routeCall that answers every unknown name with the error.
routeCall_unknownAlwaysErrors(R, toolName, args, urls, res) ==
  IF toolName \in R.routableTools THEN routeToCluster(toolName, args, urls, res)
  ELSE IF toolName \in R.fanOutTools THEN routeFanOut(toolName, args, urls, res)
  ELSE [ calls |-> << >>, result |-> ErrorResult("Unknown tool"), caller |-> args ]

\* routeCall, tool-router.ts:146-176.
routeCall(R, toolName, args, urls, res) ==
  IF toolName \in R.routableTools THEN routeToCluster(toolName, args, urls, res)
  ELSE IF toolName \in R.fanOutTools THEN routeFanOut(toolName, args, urls, res)
  ELSE IF Truthy(args, "cluster") THEN routeToCluster(toolName, args, urls, res)
  ELSE [ calls |-> << >>, result |-> ErrorResult("Unknown tool"), caller |-> args ]

\* ------------------------------------------------- the router's inputs
MaxTools == 2       \* tools in a list returned by getToolDefinitions

U1 == Https \o << "c", "1" >>
U2 == Https \o << "c", "2" >>
\* The key of a mapping whose URL is "https://", "/" or blank.
USchemeOnly == << "h", "t", "t", "p", "s", ":" >>

\* Input schemas as children report them: without properties and required;
\* with a cluster property that is not required; with a required cluster
\* property; without a cluster property but with cluster listed as required.
SchemaBare == [ type |-> "object" ]
SchemaClusterOptional ==
  [ type |-> "object",
    properties |-> [ cluster |-> [ type |-> "number", enum |-> << U1 >> ],
                     database |-> [ type |-> "string" ] ],
    required |-> << "database" >> ]
SchemaClusterRequired ==
  [ type |-> "object",
    properties |-> [ cluster |-> [ type |-> "string", description |-> "Kusto cluster URL" ] ],
    required |-> << "cluster" >> ]
SchemaNoClusterProperty ==
  [ type |-> "object",
    properties |-> [ database |-> [ type |-> "string" ] ],
    required |-> << "cluster", "database" >> ]

SourceTools ==
  { [ name |-> "t1", inputSchema |-> SchemaBare ],
    [ name |-> "t1", description |-> "d", inputSchema |-> SchemaClusterOptional ],
    [ name |-> "t2", description |-> "d", inputSchema |-> SchemaClusterRequired ],
    [ name |-> "t2", description |-> "", inputSchema |-> SchemaNoClusterProperty ] }

ToolLists == UNION { [ 1..n -> SourceTools ] : n \in 0..MaxTools }

ToolNames == { "t1", "t2", "t3" }

\* Values of the cluster argument: the empty string, spellings of the configured
\* URLs, and a URL that is not configured.
ClusterArgs ==
  { << >>,
    << " ", "H", "T", "T", "P", "S", ":", "/", "/", "C", "1", "/", " " >>,
    << "c", "1" >>,
    U2,
    Https \o << "c", "3" >> }

ClusterArgsAlone == { << >>, << "c", "1" >>, U2 }

ArgMaps ==
  { << >>, [ database |-> "db" ] } \cup
  { [ cluster |-> c ] : c \in ClusterArgsAlone } \cup
  { [ cluster |-> c, database |-> "db" ] : c \in ClusterArgs \ ClusterArgsAlone }

\* What the supervisor returns from callTool and callToolOnAll.
SupervisorResults ==
  { [ isError |-> FALSE, text |-> "downstream" ], [ isError |-> TRUE, text |-> "downstream" ] }

\* ------------------------------------------------- the router's operations
\* The router is constructed on a supervisor with one or two endpoints.
InitRouter ==
  /\ SupervisorNew
  /\ RouterNew
  /\ clusterUrls \in { << U1 >>, << U1, U2 >>, << U2, USchemeOnly >> }
  /\ ManagerNew
  /\ config = << >>

\* refreshTools is called; the supervisor's first connected endpoint with tools
\* has the list baseTools, or there is none and the list is empty.
RefreshTools(baseTools) ==
  /\ LET R == refreshTools(RouterCur, baseTools, clusterUrls) IN
     /\ mergedTools' = R.mergedTools
     /\ routableTools' = R.routableTools
     /\ fanOutTools' = R.fanOutTools
  /\ rev' = [ NoREv EXCEPT !.op = "refresh", !.base = baseTools ]
  /\ UNCHANGED << clusterUrls, supervisorVars, managerVars >>

\* routeCall is called by the upstream server with a tool name and arguments.
RouteCall(toolName, args, res) ==
  /\ LET r == routeCall(RouterCur, toolName, args, clusterUrls, res) IN
     rev' = [ NoREv EXCEPT !.op = "routeCall", !.tool = toolName, !.args = args,
                           !.calls = r.calls, !.result = r.result,
                           !.caller = r.caller ]
  /\ UNCHANGED << mergedTools, routableTools, fanOutTools, clusterUrls, supervisorVars,
                  managerVars >>

NextRouter ==
  \/ \E baseTools \in ToolLists : RefreshTools(baseTools)
  \/ \E toolName \in ToolNames, args \in ArgMaps, res \in SupervisorResults :
        RouteCall(toolName, args, res)

SpecRouter == InitRouter /\ [][NextRouter]_vars

\* ------------------------------- DownstreamManager over several mappings
\* The supervisor variables above follow one endpoint through every await of
\* its connection, teardown and reconnection.  The operations below are the
\* ones that range over the whole map: initializeAll, callTool, callToolOnAll.
MaxMappings == 2           \* --mapping options on the command line

\* ------------------------------------------------- the child's environment
\* An environment is a function from variable names to strings; a variable
\* that is not set is not in its domain.
trim(x) == trimEnd(trimStart(x))

\* extractClientIdFromIdentity, downstream-manager.ts:56-60: the trimmed
\* identity, << >> standing for the null it returns on a blank one.
extractClientIdFromIdentity(identity) == trim(identity)

managedidentitycredential == << "managedidentitycredential" >>

\* The env _connectDownstream gives to the child, downstream-manager.ts:155-179:
\* process.env spread, AZURE_TOKEN_CREDENTIALS defaulted, IDENTITY_ENDPOINT
\* forwarded, AZURE_CLIENT_ID set from a truthy identity that trims to a
\* non-empty string.
connectEnv(processEnv, mapping) ==
  LET env == Put(processEnv, "AZURE_TOKEN_CREDENTIALS",
                 IF Has(processEnv, "AZURE_TOKEN_CREDENTIALS")
                 THEN processEnv["AZURE_TOKEN_CREDENTIALS"]
                 ELSE managedidentitycredential)
      fwd == IF Has(processEnv, "IDENTITY_ENDPOINT") /\ processEnv["IDENTITY_ENDPOINT"] # << >>
             THEN Put(env, "IDENTITY_ENDPOINT", processEnv["IDENTITY_ENDPOINT"])
             ELSE env
  IN  IF mapping.identity # << >>
      THEN LET clientId == extractClientIdFromIdentity(mapping.identity) IN
           IF clientId # << >> THEN Put(fwd, "AZURE_CLIENT_ID", clientId) ELSE fwd
      ELSE fwd

\* An entry of _downstreams (downstream-manager.ts:91-101), with its child:
\*   key       the map key;  mapping  the ClusterMapping it was created from
\*   client    state.client is set
\*   attempt   the await its _connectDownstream is at, or "none"
\*   alive     the child spawned for it runs;  spawns  children spawned for it
\*   watcher   the exit listener of _connectDownstream is installed
\*   pinging   a ping() of it awaits the answer
NewEntry(key, mapping) ==
  [ key |-> key, mapping |-> mapping, status |-> "Connecting", client |-> FALSE,
    attempt |-> "handshake", alive |-> TRUE, spawns |-> 1, watcher |-> FALSE,
    consecutiveFailures |-> 0, pinging |-> FALSE ]

\* Map.get: the position of the entry with this key, 0 when there is none.
KeyIndex(m, key) ==
  IF \E i \in 1..Len(m) : m[i].key = key
  THEN CHOOSE i \in 1..Len(m) : m[i].key = key
  ELSE 0

\* A callback of initializeAll that sets the entry without looking for the key:
\* Map.set puts the new state in the place of the old one, and connects again.
initMapping_noDuplicateTest(m, mapping) ==
  LET key == normalizeClusterUrl(mapping.clusterUrl) IN
  IF KeyIndex(m, key) # 0
  THEN [ m EXCEPT ![KeyIndex(m, key)] =
           [ NewEntry(key, mapping) EXCEPT !.spawns = m[KeyIndex(m, key)].spawns + 1 ] ]
  ELSE Append(m, NewEntry(key, mapping))

\* The callback of initializeAll for one mapping, downstream-manager.ts:84-105,
\* up to the await inside client.connect, which has spawned the child.
initMapping(m, mapping) ==
  LET key == normalizeClusterUrl(mapping.clusterUrl) IN
  IF KeyIndex(m, key) # 0 THEN m
  ELSE Append(m, NewEntry(key, mapping))

\* mappings.map(...), in configuration order.
RECURSIVE initMappings(_, _)
initMappings(m, ms) ==
  IF ms = << >> THEN m ELSE initMappings(initMapping(m, Head(ms)), Tail(ms))

\* An allSettled that is content with the first attempt that finishes.
initAllSettled_first(m) == \E i \in 1..Len(m) : m[i].attempt = "none"

\* Promise.allSettled(initPromises) resolves, downstream-manager.ts:116.
initAllSettled(m) == \A i \in 1..Len(m) : m[i].attempt = "none"

\* _connectDownstream after listTools, downstream-manager.ts:207-239.
entryConnected(e) ==
  [ e EXCEPT !.client = TRUE, !.status = "Connected", !.consecutiveFailures = 0,
             !.watcher = TRUE, !.attempt = "none" ]

\* The catch of the callback, downstream-manager.ts:106-113.
entryFailed(e) == [ e EXCEPT !.status = "Failed", !.attempt = "none" ]

\* The exit listener, downstream-manager.ts:223-238, when it is installed.
entryExited(e) ==
  IF e.watcher
  THEN [ e EXCEPT !.alive = FALSE, !.status = "Disconnected", !.client = FALSE ]
  ELSE [ e EXCEPT !.alive = FALSE ]

\* ping, downstream-manager.ts:320-361: its guard and its two outcomes.
entryPingable(e) == e.client /\ e.status = "Connected"
entryPinged(e, ok) ==
  IF ok THEN [ e EXCEPT !.consecutiveFailures = 0, !.pinging = FALSE ]
  ELSE [ e EXCEPT !.consecutiveFailures = @ + 1, !.pinging = FALSE,
                  !.status = IF e.consecutiveFailures + 1 >= PingFailureThreshold
                             THEN "Disconnected" ELSE "Failed" ]

\* callTool, downstream-manager.ts:366-402, up to the await of client.callTool:
\* the per-endpoint call it starts, or the error it returns at once.
callToolStart(m, clusterUrl) ==
  LET key == normalizeClusterUrl(clusterUrl)
      i == KeyIndex(m, key)
  IN  IF i = 0
      THEN [ url |-> clusterUrl, idx |-> 0, invoked |-> FALSE, res |-> "unknownCluster" ]
      ELSE IF ~m[i].client \/ m[i].status # "Connected"
      THEN [ url |-> clusterUrl, idx |-> i, invoked |-> FALSE, res |-> "notConnected" ]
      ELSE [ url |-> clusterUrl, idx |-> i, invoked |-> TRUE, res |-> "pending" ]

\* A callTool without the catch: the rejection of client.callTool goes on.
callToolSettled_noCatch(part) ==
  IF part.res = "thrown"
  THEN [ status |-> "rejected", reason |-> "transport" ]
  ELSE [ status |-> "fulfilled",
         value |-> [ content |-> << [ from |-> part.url, text |-> part.res ] >>,
                     isError |-> part.res # "ok" ] ]

\* How the promise of callTool settles, downstream-manager.ts:374-430: the
\* child's result, or a text entry for each of the three errors.
callToolSettled(part) ==
  [ status |-> "fulfilled",
    value |-> [ content |-> << [ from |-> part.url, text |-> part.res ] >>,
                isError |-> part.res # "ok" ] ]

\* The filter of callToolOnAll, downstream-manager.ts:440-442: the keys of the
\* entries that are Connected with a client, in map order.
RECURSIVE connectedDownstreams(_)
connectedDownstreams(m) ==
  IF m = << >> THEN << >>
  ELSE ( IF Head(m).status = "Connected" /\ Head(m).client
         THEN << Head(m).key >> ELSE << >> ) \o connectedDownstreams(Tail(m))

\* The merge of callToolOnAll, downstream-manager.ts:462-480, over the settled
\* per-endpoint calls.
RECURSIVE mergeResults(_)
mergeResults(results) ==
  IF results = << >> THEN [ content |-> << >>, isError |-> FALSE ]
  ELSE LET rest == mergeResults(Tail(results))
           r == Head(results)
       IN  IF r.status = "fulfilled"
           THEN [ content |-> r.value.content \o rest.content,
                  isError |-> r.value.isError \/ rest.isError ]
           ELSE [ content |-> << [ from |-> << >>, text |-> "Error from one downstream" ] >>
                                \o rest.content,
                  isError |-> TRUE ]

NoneConnected ==
  [ content |-> << [ from |-> << >>, text |-> "No downstream MCP servers" ] >>,
    isError |-> TRUE ]

RECURSIVE Flatten(_)
Flatten(qs) == IF qs = << >> THEN << >> ELSE Head(qs) \o Flatten(Tail(qs))

\* What the operation in flight returns once none of its parts is pending.
Settled(c) == \A j \in 1..Len(c.parts) : c.parts[j].res # "pending"
Returned(m, c) ==
  LET results == [ j \in 1..Len(c.parts) |-> callToolSettled(c.parts[j]) ]
      base == [ NoMEv EXCEPT !.op = c.kind, !.url = c.url, !.connected = c.connected,
                             !.parts = c.parts ]
  IN  [ base EXCEPT
          !.invoked = Flatten([ j \in 1..Len(c.parts) |->
                                  IF c.parts[j].invoked
                                  THEN << m[c.parts[j].idx].key >> ELSE << >> ]),
          !.raised = ( c.kind = "callTool" /\ results[1].status = "rejected" ),
          !.result = IF c.kind = "callTool"
                     THEN ( IF results[1].status = "fulfilled" THEN results[1].value
                            ELSE << >> )
                     ELSE IF c.connected = << >> THEN NoneConnected
                     ELSE mergeResults(results) ]

\* ------------------------------------------------- the command line
\* The position of the first "=" in a string, 0 when it has none (indexOf).
IndexOfEq(value) ==
  IF \E k \in 1..Len(value) : value[k] = "="
  THEN CHOOSE k \in 1..Len(value) :
          value[k] = "=" /\ \A j \in 1..(k - 1) : value[j] # "="
  ELSE 0

\* A parseMapping that splits at the last "=".
parseMapping_lastEq(value, previous) ==
  LET eqIndex == IF \E k \in 1..Len(value) : value[k] = "="
                 THEN CHOOSE k \in 1..Len(value) :
                         value[k] = "=" /\ \A j \in (k + 1)..Len(value) : value[j] # "="
                 ELSE 0
      clusterUrl == IF eqIndex = 0 THEN value ELSE SubSeq(value, 1, eqIndex - 1)
      identity == IF eqIndex = 0 THEN << >> ELSE SubSeq(value, eqIndex + 1, Len(value))
  IN  IF clusterUrl = << >>
      THEN [ error |-> TRUE, mappings |-> previous ]
      ELSE [ error |-> FALSE,
             mappings |-> Append(previous, [ clusterUrl |-> clusterUrl, identity |-> identity ]) ]

\* parseMapping, index.ts:31-51: the mappings collected so far with the new
\* one, or the error it throws.
parseMapping(value, previous) ==
  LET eqIndex == IndexOfEq(value)
      clusterUrl == IF eqIndex = 0 THEN value ELSE SubSeq(value, 1, eqIndex - 1)
      identity == IF eqIndex = 0 THEN << >> ELSE SubSeq(value, eqIndex + 1, Len(value))
  IN  IF clusterUrl = << >>
      THEN [ error |-> TRUE, mappings |-> previous ]
      ELSE [ error |-> FALSE,
             mappings |-> Append(previous, [ clusterUrl |-> clusterUrl, identity |-> identity ]) ]

\* ------------------------------------------------- the manager's inputs
\* Values of --mapping: an endpoint with an identity; the same endpoint spelled
\* with capitals, blanks and a slash, with an identity that holds a "="; an
\* endpoint without identity; the same with a blank for identity; a URL that
\* is a slash; a value without URL; the empty value.
ValueA == U1 \o << "=", "i", "1" >>
ValueASpelled ==
  << " ", "H", "T", "T", "P", "S", ":", "/", "/", "C", "1", "/", " " >> \o << "=", "i", "=", "2" >>
ValueB == U2
ValueSlash == << "/", "=", "i", "1" >>
ValueNoUrl == << "=", "i", "1" >>
ValueEmpty == << >>
ValueBlankIdentity == U2 \o << "=", " " >>
MappingValues ==
  { ValueA, ValueASpelled, ValueB, ValueBlankIdentity, ValueSlash, ValueNoUrl, ValueEmpty }

\* The router's own environment: one that holds the identity endpoint of the
\* platform, one that holds credentials of the router itself.
EnvPlatform == [ v \in { "IDENTITY_ENDPOINT" } |-> << "e" >> ]
EnvOwnCredentials ==
  [ v \in { "AZURE_CLIENT_ID", "AZURE_TOKEN_CREDENTIALS" } |->
      IF v = "AZURE_CLIENT_ID" THEN << "r" >> ELSE << "d" >> ]
ProcessEnvs == { EnvPlatform, EnvOwnCredentials }

\* Cluster URLs callTool is called with: the router passes configured keys,
\* other callers may pass any spelling.
CallUrls == { U1, USchemeOnly, << "C", "1", "/" >> }

\* ------------------------------------------------ the manager's operations
InitManager ==
  /\ SupervisorNew
  /\ RouterNew
  /\ clusterUrls = << >>
  /\ ManagerNew
  /\ config = << >>

ManagerStep == UNCHANGED << config, supervisorVars, routerVars >>

\* commander hands the value of a --mapping option to parseMapping
\* (index.ts:62-69); an error it throws ends main and the process (171-177).
ParseMapping(value) ==
  /\ mgrPhase = "new"
  /\ Len(config) < MaxMappings
  /\ LET r == parseMapping(value, config) IN
     /\ config' = r.mappings
     /\ mgrPhase' = IF r.error THEN "exited" ELSE mgrPhase
     /\ mev' = [ NoMEv EXCEPT !.op = "parseMapping", !.url = value,
                              !.result = [ error |-> r.error ] ]
  /\ UNCHANGED << dsMap, inflight, supervisorVars, routerVars >>

\* The command line is parsed and has a mapping (index.ts:97-102); initializeAll
\* is called, downstream-manager.ts:83-116, and each entry's _connectDownstream
\* runs up to its first await: mev.parts holds the env given to each child.
MgrInitializeAll ==
  /\ mgrPhase = "new"
  /\ config # << >>
  /\ dsMap' = initMappings(<< >>, config)
  /\ mgrPhase' = "initializing"
  /\ \E processEnv \in ProcessEnvs :
        mev' = [ NoMEv EXCEPT !.op = "connectDownstream",
                   !.parts = [ i \in 1..Len(dsMap') |->
                                 connectEnv(processEnv, dsMap'[i].mapping) ] ]
  /\ UNCHANGED inflight
  /\ ManagerStep

\* An attempt of initializeAll has finished: when all have, initializeAll returns.
InitProgress(m) ==
  IF mgrPhase = "initializing" /\ initAllSettled(m)
  THEN mgrPhase' = "ready" /\ mev' = [ NoMEv EXCEPT !.op = "initializeAll" ]
  ELSE mev' = NoMEv /\ UNCHANGED mgrPhase

\* The child answers the handshake of client.connect.
MgrHandshakeOk(i) ==
  /\ dsMap[i].attempt = "handshake" /\ dsMap[i].alive
  /\ dsMap' = [ dsMap EXCEPT ![i].attempt = "listTools" ]
  /\ mev' = NoMEv
  /\ UNCHANGED << mgrPhase, inflight >>
  /\ ManagerStep

\* The child answers listTools.
MgrListToolsOk(i) ==
  /\ dsMap[i].attempt = "listTools" /\ dsMap[i].alive
  /\ dsMap' = [ dsMap EXCEPT ![i] = entryConnected(dsMap[i]) ]
  /\ InitProgress(dsMap')
  /\ UNCHANGED inflight
  /\ ManagerStep

\* client.connect or listTools rejects (spawn error, exit, protocol error).
MgrConnectFail(i) ==
  /\ dsMap[i].attempt # "none"
  /\ dsMap' = [ dsMap EXCEPT ![i] = entryFailed(dsMap[i]) ]
  /\ InitProgress(dsMap')
  /\ UNCHANGED inflight
  /\ ManagerStep

\* A child exits.
MgrChildExit(i) ==
  /\ dsMap[i].alive
  /\ dsMap' = [ dsMap EXCEPT ![i] = entryExited(dsMap[i]) ]
  /\ mev' = NoMEv
  /\ UNCHANGED << mgrPhase, inflight >>
  /\ ManagerStep

\* The health monitor pings an entry, and the ping is answered or fails.
MgrPingStart(i) ==
  /\ mgrPhase = "ready"
  /\ entryPingable(dsMap[i]) /\ ~dsMap[i].pinging
  /\ dsMap' = [ dsMap EXCEPT ![i].pinging = TRUE ]
  /\ mev' = NoMEv
  /\ UNCHANGED << mgrPhase, inflight >>
  /\ ManagerStep

MgrPingEnd(i, ok) ==
  /\ dsMap[i].pinging
  /\ ok => dsMap[i].alive
  /\ dsMap' = [ dsMap EXCEPT ![i] = entryPinged(dsMap[i], ok) ]
  /\ mev' = NoMEv
  /\ UNCHANGED << mgrPhase, inflight >>
  /\ ManagerStep

\* An operation has started its per-endpoint calls: it waits for them, or it
\* returns in the same turn when none of them waits.
Started(c) ==
  IF Settled(c)
  THEN inflight' = NoCall /\ mev' = Returned(dsMap, c)
  ELSE inflight' = c /\ mev' = NoMEv

\* callTool is called, downstream-manager.ts:366-431.
MgrCallTool(clusterUrl) ==
  /\ mgrPhase = "ready" /\ inflight.kind = "none"
  /\ Started([ kind |-> "callTool", url |-> clusterUrl, connected |-> << >>,
               parts |-> << callToolStart(dsMap, clusterUrl) >> ])
  /\ UNCHANGED << dsMap, mgrPhase >>
  /\ ManagerStep

\* callToolOnAll is called, downstream-manager.ts:436-481.
MgrCallToolOnAll ==
  /\ mgrPhase = "ready" /\ inflight.kind = "none"
  /\ LET connected == connectedDownstreams(dsMap) IN
     Started([ kind |-> "callToolOnAll", url |-> << >>, connected |-> connected,
               parts |-> [ j \in 1..Len(connected) |->
                             callToolStart(dsMap, connected[j]) ] ])
  /\ UNCHANGED << dsMap, mgrPhase >>
  /\ ManagerStep

\* client.callTool of a per-endpoint call settles: the child's result, with or
\* without isError, while the child runs; a rejection at any time.
MgrAnswer(j, outcome) ==
  /\ inflight.kind # "none"
  /\ inflight.parts[j].res = "pending"
  /\ outcome \in { "ok", "toolError" } => dsMap[inflight.parts[j].idx].alive
  /\ Started([ inflight EXCEPT !.parts[j].res = outcome ])
  /\ UNCHANGED << dsMap, mgrPhase >>
  /\ ManagerStep

NextManager ==
  \/ \E value \in MappingValues : ParseMapping(value)
  \/ MgrInitializeAll
  \/ \E i \in 1..Len(dsMap) : MgrHandshakeOk(i)
  \/ \E i \in 1..Len(dsMap) : MgrListToolsOk(i)
  \/ \E i \in 1..Len(dsMap) : MgrConnectFail(i)
  \/ \E i \in 1..Len(dsMap) : MgrChildExit(i)
  \/ \E i \in 1..Len(dsMap) : MgrPingStart(i)
  \/ \E i \in 1..Len(dsMap), ok \in BOOLEAN : MgrPingEnd(i, ok)
  \/ \E clusterUrl \in CallUrls : MgrCallTool(clusterUrl)
  \/ MgrCallToolOnAll
  \/ \E j \in 1..Len(inflight.parts), outcome \in { "ok", "toolError", "thrown" } :
        MgrAnswer(j, outcome)

SpecManager == InitManager /\ [][NextManager]_vars

\* ---------------------------------------------------------------- claims
Present(r) == r # NoRef
Range(q) == { q[i] : i \in 1..Len(q) }

\* C1 (as stated): every endpoint record has client and child process either both
\* present with status Connected, or both absent with status Connecting, Failed
\* or Disconnected.
C1_RefsMatchStatus ==
  \A u \in Urls :
    \/ /\ Present(downstreams[u].client) /\ Present(downstreams[u].process)
       /\ downstreams[u].status = "Connected"
    \/ /\ ~Present(downstreams[u].client) /\ ~Present(downstreams[u].process)
       /\ downstreams[u].status \in { "Connecting", "Failed", "Disconnected" }

\* C1 (amended): every endpoint record has its client and child-process
\* references either both present, then naming the same child, with status
\* Connected, Failed or Disconnected, or both absent.
C1_RefsTogether ==
  \A u \in Urls :
    /\ Present(downstreams[u].client) <=> Present(downstreams[u].process)
    /\ downstreams[u].client = downstreams[u].process
    /\ Present(downstreams[u].client) =>
         downstreams[u].status \in { "Connected", "Failed", "Disconnected" }

\* A failed ping has left a record Failed with both references still present.
C1_Witness ==
  \E u \in Urls :
    /\ ev.op = "ping" /\ ~ev.val /\ ev.url = u
    /\ downstreams[u].status = "Failed"
    /\ Present(downstreams[u].client) /\ Present(downstreams[u].process)

\* C2: per endpoint at most one reconnect call is between its teardown and its
\* return, and the reconnecting flag is set exactly while it is; a call that finds
\* the flag set returns false and changes neither the record, nor the children,
\* nor the call in flight; when a call that set the flag returns, the flag is clear.
C2_ReconnectGuard ==
  /\ [](\A u \in Urls : /\ Len(rc[u]) <= 1
                        /\ downstreams[u].reconnecting <=> (Len(rc[u]) = 1))
  /\ [](ev.op = "reconnect" => ~downstreams[ev.url].reconnecting)
  /\ [][\A u \in Urls :
          (ev'.op = "reconnectRejected" /\ ev'.url = u) =>
             /\ downstreams[u].reconnecting
             /\ downstreams' = downstreams
             /\ procs' = procs
             /\ rc' = rc]_vars

\* A reconnect call was turned away by the guard while another was in flight.
C2_Witness ==
  \E u \in Urls :
    /\ ev.op = "reconnectRejected" /\ ev.url = u
    /\ downstreams[u].reconnecting /\ Len(rc[u]) = 1

\* C3: at most one execution of the tick body is in progress at any time.
C3_NoOverlap == BagCardinality(ticks) <= 1

\* C4: while the health loop is stopped, the ticker is cancelled, no reconnect
\* timer is pending and no backoff is stored, for any endpoint.
C4_StoppedIsQuiet ==
  ~running =>
     /\ tickers = 0 /\ ~interval
     /\ \A u \in Urls : /\ armed[u] = << >>
                        /\ reconnectTimers[u] = 0
                        /\ reconnectBackoffs[u] = 0

\* C5: the health loop calls reconnect only while it is running: a step that
\* calls reconnect leaves the loop running, and no step taken while the loop is
\* stopped starts a reconnect.
C5_NoReconnectAfterStop ==
  /\ [](ev.op \in { "reconnectCall", "reconnectRejected" } => running)
  /\ [][~running => \A u \in Urls : Len(rc'[u]) <= Len(rc[u])]_vars

\* A reconnect timer has fired on a stopped loop and was dropped.
C5_Witness == ev.op = "timerAbort" /\ ~running

\* C6: every endpoint has at most one armed reconnect timer, the one the timer
\* map holds; a tick, an exit callback or a failed attempt that asks for a
\* reconnect of an endpoint whose timer is pending leaves that timer as it is.
C6_OneTimer ==
  /\ [](\A u \in Urls :
          armed[u] = IF reconnectTimers[u] = 0 THEN << >> ELSE << reconnectTimers[u] >>)
  /\ [][\A u \in Urls :
          ( /\ reconnectTimers[u] # 0
            /\ ev'.url = u
            /\ \/ ev'.op = "ping" /\ ~ev'.val
               \/ ev'.op = "exit" /\ ev'.cb # << >>
               \/ ev'.op = "reconnect" /\ ~ev'.val ) =>
             /\ armed'[u] = armed[u]
             /\ reconnectTimers'[u] = reconnectTimers[u]]_vars

\* _scheduleReconnect was called for an endpoint whose timer was pending.
C6_Witness ==
  \E u \in Urls :
    /\ "kept" \in Range(ev.sched) /\ ev.url = u
    /\ Len(armed[u]) = 1

\* C7: when a reconnect attempt made with delay d fails while the loop is
\* running, the next attempt is pending with delay min(2 * d, maximum).
C7_BackoffDoubles ==
  \A u \in Urls :
    (ev.op = "reconnect" /\ ~ev.val /\ ev.url = u /\ running) =>
       armed[u] = << Min(2 * ev.d, maxReconnectBackoffSeconds) >>

\* C8: when a reconnect call returns true the record is Connected with no
\* consecutive failures and a client; when a call that passed the guard returns
\* false the record is Failed.
C8_ReconnectResult ==
  \A u \in Urls :
    (ev.op = "reconnect" /\ ev.url = u) =>
       IF ev.val
       THEN /\ downstreams[u].status = "Connected"
            /\ downstreams[u].consecutiveFailures = 0
            /\ Present(downstreams[u].client)
       ELSE downstreams[u].status = "Failed"

\* A reconnect that tore down a Disconnected record's connection has failed.
C8_Witness ==
  \E u \in Urls :
    /\ ev.op = "reconnect" /\ ~ev.val /\ ev.url = u
    /\ downstreams[u].status = "Failed"
    /\ Len(procs[u]) >= 2

\* C9: a failed ping adds one to consecutiveFailures, returns false, makes the
\* status Disconnected when the counter has reached 3 and Failed otherwise, and
\* leaves the endpoint map alone; a successful ping zeroes the counter, sets
\* lastHeartbeat to the present time and returns true.
C9_PingOutcome ==
  [][\A u \in Urls :
       (ev'.op = "ping" /\ ev'.url = u) =>
          IF ev'.val
          THEN /\ downstreams'[u].consecutiveFailures = 0
               /\ downstreams'[u].lastHeartbeat = "now"
          ELSE /\ downstreams'[u].consecutiveFailures =
                     downstreams[u].consecutiveFailures + 1
               /\ downstreams'[u].status =
                     IF downstreams'[u].consecutiveFailures >= 3
                     THEN "Disconnected" ELSE "Failed"
               /\ dsKeys' = dsKeys]_vars

\* The third failed ping in a row has made the record Disconnected.
C9_Witness ==
  \E u \in Urls :
    /\ ev.op = "ping" /\ ~ev.val /\ ev.url = u
    /\ downstreams[u].consecutiveFailures = 3
    /\ downstreams[u].status = "Disconnected"
    /\ InKeys(Cur, u)

\* C10: the step in which a child with an exit watcher exits leaves the record
\* Disconnected without client and child references, and in it the registered
\* exit callback is invoked exactly once, with the endpoint's URL; the exit of a
\* child without watcher invokes nothing.
C10_ExitOnce ==
  \A u \in Urls :
    (ev.op = "exit" /\ ev.url = u) =>
       IF ev.val
       THEN /\ downstreams[u].status = "Disconnected"
            /\ ~Present(downstreams[u].client)
            /\ ~Present(downstreams[u].process)
            /\ ev.cb = IF onDownstreamExit THEN << u >> ELSE << >>
       ELSE ev.cb = << >>

\* The child of a connected endpoint has exited and the callback was invoked.
C10_Witness ==
  \E u \in Urls :
    /\ ev.op = "exit" /\ ev.val /\ ev.url = u
    /\ ev.cb = << u >>
    /\ downstreams[u].status = "Disconnected"

\* C11: the step in which the supervisor reports a child exit to the registered
\* callback leaves a reconnect timer pending for the endpoint when the health
\* loop is running, and arms or changes no timer when it is not.
C11_ExitSchedules ==
  [][\A u \in Urls :
       (ev'.op = "exit" /\ ev'.url = u /\ ev'.cb # << >>) =>
          IF running
          THEN /\ reconnectTimers'[u] # 0
               /\ armed'[u] = << reconnectTimers'[u] >>
               /\ ev'.sched # << >>
          ELSE /\ armed' = armed
               /\ reconnectTimers' = reconnectTimers
               /\ ev'.sched = << >>]_vars

\* A child exit reported to a running loop has armed the endpoint's timer.
C11_Witness ==
  \E u \in Urls :
    /\ ev.op = "exit" /\ ev.url = u /\ ev.cb = << u >>
    /\ running
    /\ ev.sched = << "armed" >>
    /\ reconnectTimers[u] = 1

\* Child p of u is in the hands of a call in flight: a connection attempt that
\* has not returned, or a teardown that closes it or waits for its exit.
Held(u, p) ==
  \/ \E i \in 1..Len(initTasks[u]) : initTasks[u][i].p = p
  \/ \E i \in 1..Len(rc[u]) : rc[u][i].p = p
  \/ \E i \in 1..Len(sd[u]) : sd[u][i].p = p

\* C12: every endpoint has at most one live child, and every live child is the
\* one its record refers to, or is still in the hands of the connection attempt
\* or teardown working on it, or was closed by a failed handshake.
C12_NoOrphans ==
  \A u \in Urls :
    /\ Cardinality({ p \in 1..Len(procs[u]) : procs[u][p].alive }) <= 1
    /\ \A p \in 1..Len(procs[u]) :
         procs[u][p].alive =>
            \/ downstreams[u].process = p
            \/ Held(u, p)
            \/ procs[u][p].closed /\ ~procs[u][p].watcher

\* C13: once shutdown-all has started, no reconnect of any endpoint is between
\* its teardown and the completion of its connect; so a teardown of shutdown-all
\* and a reconnect of the same endpoint are never in progress together and none
\* is in progress when shutdown-all has completed.
C13_Serialized ==
  phase \in { "shutdown", "exited" } => \A u \in Urls : rc[u] = << >>

\* C14: the shutdown sequence is started at most once and runs in order: the
\* event that starts it stops the health loop, then the upstream transport is
\* closed, then shutdown-all runs, then the process exits with status 0; a later
\* event changes nothing.
C14_ShutdownOnce ==
  [][ /\ shutdownInProgress => shutdownInProgress'
      /\ ev'.op = "shutdown" =>
            /\ ~shutdownInProgress /\ shutdownInProgress'
            /\ phase = "serving" /\ phase' = "closing"
            /\ ~running' /\ tickers' = 0
      /\ ev'.op = "signalIgnored" =>
            << phase, shutdownInProgress, exitCode, dsKeys, downstreams, procs,
               onDownstreamExit, initTasks, rc, sd, running, interval, tickers,
               reconnectBackoffs, reconnectTimers, armed, ticks >>' =
            << phase, shutdownInProgress, exitCode, dsKeys, downstreams, procs,
               onDownstreamExit, initTasks, rc, sd, running, interval, tickers,
               reconnectBackoffs, reconnectTimers, armed, ticks >>
      /\ shutdownInProgress =>
            /\ phase = "closing" => phase' \in { "closing", "shutdown", "exited" }
            /\ phase = "shutdown" => phase' \in { "shutdown", "exited" }
            /\ phase' # phase /\ phase' \in { "shutdown", "exited" } =>
                  ev'.op \in { "shutdownAll", "exit", "graceTimeout", "none" }
            /\ phase' = "exited" => exitCode' = 0
            /\ phase' # "exited" => exitCode' = -1
            /\ ~running' ]_vars

\* A second shutdown event arrived while shutdown-all was running and was ignored.
C14_Witness ==
  /\ ev.op = "signalIgnored"
  /\ phase = "shutdown" /\ shutdownInProgress
  /\ \E u \in Urls : sd[u] # << >>

MergedNames == { mergedTools[i].name : i \in 1..Len(mergedTools) }
Count(q, x) == Cardinality({ i \in 1..Len(q) : q[i] = x })

\* C15: after a refresh, routable and fanOut are disjoint and every name in the
\* merged tool list is in exactly one of them.
C15_Partition ==
  rev.op = "refresh" =>
     /\ routableTools \cap fanOutTools = { }
     /\ MergedNames \subseteq routableTools \cup fanOutTools

\* C16: after a refresh, for every source tool, its name is in routable exactly
\* when its input schema has a property named cluster and in fanOut exactly when
\* it has not.
C16_ClassifiedByClusterProperty ==
  rev.op = "refresh" =>
     \A i \in 1..Len(rev.base) :
        /\ rev.base[i].name \in routableTools <=> hasClusterProperty(rev.base[i])
        /\ rev.base[i].name \in fanOutTools <=> ~hasClusterProperty(rev.base[i])

\* C17: after every refresh the names classified routable or fan-out are the
\* names of the merged tool list.
C17_RefreshReplaces ==
  rev.op = "refresh" => routableTools \cup fanOutTools = MergedNames

\* C18: after a refresh, every merged tool classified routable has a cluster
\* property of type string whose enum is the list of configured URLs, and a
\* required list that holds cluster once and every name the source tool required.
C18_RoutableSchema ==
  rev.op = "refresh" =>
     \A i \in 1..Len(mergedTools) :
        mergedTools[i].name \in routableTools =>
           LET schema == mergedTools[i].inputSchema
               source == rev.base[i].inputSchema
           IN  /\ Has(schema, "properties") /\ Has(schema.properties, "cluster")
               /\ schema.properties.cluster.type = "string"
               /\ schema.properties.cluster.enum = clusterUrls
               /\ Has(schema, "required")
               /\ Count(schema.required, "cluster") = 1
               /\ Has(source, "required") =>
                     \A j \in 1..Len(source.required) :
                        Includes(schema.required, source.required[j])

\* A routable tool whose source schema did not require cluster, and whose
\* cluster property had another type and enum, was merged for two endpoints.
C18_Witness ==
  /\ rev.op = "refresh"
  /\ clusterUrls = << U1, U2 >>
  /\ \E i \in 1..Len(mergedTools) :
        /\ mergedTools[i].name \in routableTools
        /\ rev.base[i].inputSchema = SchemaClusterOptional
        /\ mergedTools[i].inputSchema.required = << "database", "cluster" >>

\* C19: after a refresh, every merged tool classified fan-out has a cluster
\* property whose enum is the list of configured URLs, and its required list
\* does not contain cluster.
C19_FanOutSchema ==
  rev.op = "refresh" =>
     \A i \in 1..Len(mergedTools) :
        mergedTools[i].name \in fanOutTools =>
           LET schema == mergedTools[i].inputSchema
           IN  /\ Has(schema, "properties") /\ Has(schema.properties, "cluster")
               /\ schema.properties.cluster.enum = clusterUrls
               /\ Has(schema, "required") => ~Includes(schema.required, "cluster")

\* C20 (as stated): a call to a routable tool whose cluster argument normalizes
\* to a configured URL makes exactly one supervisor call-on-one, to the normalized
\* URL, with the caller's argument map.
C20_ForwardsUnchanged ==
  ( /\ rev.op = "routeCall"
    /\ rev.tool \in routableTools
    /\ Has(rev.args, "cluster")
    /\ Includes(clusterUrls, normalizeClusterUrl(rev.args.cluster)) ) =>
     rev.calls = << [ fn |-> "callTool", url |-> normalizeClusterUrl(rev.args.cluster),
                      tool |-> rev.tool, args |-> rev.args ] >>

\* C20 (amended): a call to a routable tool whose cluster argument is not the
\* empty string and normalizes to a configured URL makes exactly one supervisor
\* call-on-one, to the normalized URL, with the caller's argument map.
C20_ForwardsNonEmpty ==
  ( /\ rev.op = "routeCall"
    /\ rev.tool \in routableTools
    /\ Has(rev.args, "cluster") /\ rev.args.cluster # << >>
    /\ Includes(clusterUrls, normalizeClusterUrl(rev.args.cluster)) ) =>
     rev.calls = << [ fn |-> "callTool", url |-> normalizeClusterUrl(rev.args.cluster),
                      tool |-> rev.tool, args |-> rev.args ] >>

\* A routable call whose cluster was spelled with capitals, blanks and a
\* trailing slash went to the normalized URL with all its arguments.
C20_Witness ==
  /\ rev.op = "routeCall"
  /\ rev.tool \in routableTools
  /\ Has(rev.args, "cluster") /\ Has(rev.args, "database")
  /\ rev.args.cluster # normalizeClusterUrl(rev.args.cluster)
  /\ Len(rev.calls) = 1
  /\ rev.calls[1].url = U1
  /\ rev.calls[1].args = rev.args

\* C21 (as stated): every call to a tool classified fan-out that reaches the
\* supervisor delivers the caller's argument map without the key cluster, all
\* other keys and values unchanged, and leaves the caller's map as it was.
C21_FanOutStripsCluster ==
  ( rev.op = "routeCall" /\ rev.tool \in fanOutTools ) =>
     /\ \A i \in 1..Len(rev.calls) : rev.calls[i].args = Del(rev.args, "cluster")
     /\ rev.caller = rev.args

\* The same for the names that are classified fan-out and not routable.
C21_FanOutOnlyStripsCluster ==
  ( rev.op = "routeCall" /\ rev.tool \in fanOutTools \ routableTools ) =>
     /\ \A i \in 1..Len(rev.calls) : rev.calls[i].args = Del(rev.args, "cluster")
     /\ rev.caller = rev.args

\* The outcomes of the decision table, read off the last call: route-to-one
\* ends in one call-on-one to the normalized cluster or in one of its two
\* errors; call-on-all in one call-on-all; the unknown-tool error in no call.
RoutedToOne ==
  \/ /\ rev.calls = << >>
     /\ rev.result \in { ErrorResult("cluster parameter is required"),
                         ErrorResult("not configured") }
  \/ /\ Len(rev.calls) = 1 /\ rev.calls[1].fn = "callTool"
     /\ rev.calls[1].tool = rev.tool
     /\ Has(rev.args, "cluster")
     /\ rev.calls[1].url = normalizeClusterUrl(rev.args.cluster)
CalledOnAll ==
  Len(rev.calls) = 1 /\ rev.calls[1].fn = "callToolOnAll" /\ rev.calls[1].tool = rev.tool
UnknownToolError ==
  rev.calls = << >> /\ rev.result = ErrorResult("Unknown tool")

\* C22 (as stated): the router picks its action by the decision table, where
\* args.cluster is present when the argument map has the key: routable name,
\* route-to-one; fan-out name with cluster, route-to-one; fan-out name without,
\* call-on-all; unknown name with cluster, route-to-one; unknown name without,
\* the unknown-tool error and no supervisor call.
C22_DecisionTable ==
  rev.op = "routeCall" =>
     IF rev.tool \in routableTools THEN RoutedToOne
     ELSE IF rev.tool \in fanOutTools
     THEN IF Has(rev.args, "cluster") THEN RoutedToOne ELSE CalledOnAll
     ELSE IF Has(rev.args, "cluster") THEN RoutedToOne ELSE UnknownToolError

\* C22 (amended): the same table, where args.cluster is present when the
\* argument map has the key with a value that is not the empty string.
C22_DecisionTableNonEmpty ==
  rev.op = "routeCall" =>
     IF rev.tool \in routableTools THEN RoutedToOne
     ELSE IF rev.tool \in fanOutTools
     THEN IF Truthy(rev.args, "cluster") THEN RoutedToOne ELSE CalledOnAll
     ELSE IF Truthy(rev.args, "cluster") THEN RoutedToOne ELSE UnknownToolError

\* After a refresh that classified tools, a call to a name in neither table
\* that carried a cluster was sent to that one endpoint.
C22_Witness ==
  /\ rev.op = "routeCall"
  /\ routableTools # { } /\ fanOutTools # { }
  /\ rev.tool \notin routableTools \cup fanOutTools
  /\ Truthy(rev.args, "cluster")
  /\ Len(rev.calls) = 1 /\ rev.calls[1].fn = "callTool" /\ rev.calls[1].url = U1

\* C23: a call to a routable tool reaches the supervisor only with a cluster
\* that is there, not empty and normalizes to a configured URL; without a
\* cluster or with an empty one the result is the error 'cluster parameter is
\* required', with a cluster that matches no configured URL the error 'not
\* configured'; in both cases no supervisor call is made and the supervisor's
\* state and endpoint list are as before.
C23_RouteToOneErrors ==
  [][ ( rev'.op = "routeCall" /\ rev'.tool \in routableTools' ) =>
        LET args == rev'.args
            given == Has(args, "cluster") /\ args.cluster # << >>
            matches == given /\ Includes(clusterUrls, normalizeClusterUrl(args.cluster))
        IN  /\ rev'.calls # << >> => matches
            /\ ~given =>
                  /\ rev'.result = ErrorResult("cluster parameter is required")
                  /\ rev'.calls = << >>
            /\ ( given /\ ~matches ) =>
                  /\ rev'.result = ErrorResult("not configured")
                  /\ rev'.calls = << >>
            /\ ~matches => UNCHANGED << supervisorVars, clusterUrls >>
    ]_vars

\* A routable call named a cluster that is not configured and got the error.
C23_Witness ==
  /\ rev.op = "routeCall"
  /\ rev.tool \in routableTools
  /\ Has(rev.args, "cluster")
  /\ rev.args.cluster = Https \o << "c", "3" >>
  /\ rev.result = ErrorResult("not configured")
  /\ rev.calls = << >>

\* The keys of the entries that are Connected with a client, in map order,
\* and the keys of the entries a list of per-endpoint calls invoked.
ConnectedKeys ==
  Flatten([ i \in 1..Len(dsMap) |->
              IF dsMap[i].status = "Connected" /\ dsMap[i].client
              THEN << dsMap[i].key >> ELSE << >> ])
InvokedKeys(parts) ==
  Flatten([ j \in 1..Len(parts) |->
              IF parts[j].invoked THEN << dsMap[parts[j].idx].key >> ELSE << >> ])
FixedKeys == \A i \in 1..Len(dsMap) : normalizeClusterUrl(dsMap[i].key) = dsMap[i].key

\* C24: callToolOnAll invokes the tool once on each entry that is Connected
\* with a client when it is called and on no other; it returns when every
\* per-endpoint call has settled, with the content of every successful one, and
\* with isError exactly when no entry was connected or a per-endpoint call
\* returned isError or failed.
C24_CallOnAll ==
  [][ /\ ( inflight.kind = "none" /\ inflight'.kind = "callToolOnAll" ) =>
           InvokedKeys(inflight'.parts) = ConnectedKeys
      /\ mev'.op = "callToolOnAll" =>
           /\ inflight.kind = "none" => InvokedKeys(mev'.parts) = ConnectedKeys
           /\ \A j \in 1..Len(mev'.parts) :
                 /\ mev'.parts[j].res # "pending"
                 /\ mev'.parts[j].res = "ok" =>
                       \E k \in 1..Len(mev'.result.content) :
                          mev'.result.content[k] = [ from |-> mev'.parts[j].url, text |-> "ok" ]
           /\ mev'.result.isError <=>
                 \/ mev'.connected = << >>
                 \/ \E j \in 1..Len(mev'.parts) : mev'.parts[j].res # "ok"
    ]_vars

\* The same when every key of the map is the normal form of itself.
C24_CallOnAllFixedKeys ==
  [][ FixedKeys =>
      /\ ( inflight.kind = "none" /\ inflight'.kind = "callToolOnAll" ) =>
           InvokedKeys(inflight'.parts) = ConnectedKeys
      /\ mev'.op = "callToolOnAll" =>
           /\ inflight.kind = "none" => InvokedKeys(mev'.parts) = ConnectedKeys
           /\ \A j \in 1..Len(mev'.parts) :
                 /\ mev'.parts[j].res # "pending"
                 /\ mev'.parts[j].res = "ok" =>
                       \E k \in 1..Len(mev'.result.content) :
                          mev'.result.content[k] = [ from |-> mev'.parts[j].url, text |-> "ok" ]
           /\ mev'.result.isError <=>
                 \/ mev'.connected = << >>
                 \/ \E j \in 1..Len(mev'.parts) : mev'.parts[j].res # "ok"
    ]_vars

\* C25: callTool invokes a client only when the map has an entry under the
\* normalized URL and that entry is Connected with a client at the call; for
\* an unknown URL or an entry in another state it returns an isError result,
\* invokes no client and leaves the map as it is; a rejection of the client's
\* call comes back as an isError result and the returned promise is never
\* rejected.
C25_CallOnOne ==
  [][ /\ ( inflight.kind = "none" /\ ( inflight'.kind = "callTool" \/ mev'.op = "callTool" ) ) =>
           LET part == IF inflight'.kind = "callTool" THEN inflight'.parts[1]
                       ELSE mev'.parts[1]
               ready == \E i \in 1..Len(dsMap) :
                           /\ dsMap[i].key = normalizeClusterUrl(part.url)
                           /\ dsMap[i].status = "Connected" /\ dsMap[i].client
           IN  /\ part.invoked =>
                     /\ ready
                     /\ dsMap[part.idx].key = normalizeClusterUrl(part.url)
               /\ ~ready =>
                     /\ ~part.invoked
                     /\ mev'.op = "callTool" /\ mev'.result.isError
                     /\ dsMap' = dsMap
      /\ mev'.op = "callTool" =>
           /\ ~mev'.raised
           /\ mev'.parts[1].res = "thrown" => mev'.result.isError
    ]_vars

\* callTool was called for an entry that has its client and is Failed after a
\* failed ping, and answered with the error without invoking the client.
C25_Witness ==
  /\ mev.op = "callTool"
  /\ mev.parts[1].res = "notConnected"
  /\ mev.invoked = << >>
  /\ dsMap[mev.parts[1].idx].client
  /\ dsMap[mev.parts[1].idx].status = "Failed"
  /\ mev.result.isError

\* C26: normalizing a normalized URL gives the same URL, for every cluster URL
\* initializeAll has normalized and every URL callTool was called with.
C26_NormalizeIdempotent ==
  /\ mgrPhase \in { "initializing", "ready" } => \A i \in 1..Len(config) :
        normalizeClusterUrl(normalizeClusterUrl(config[i].clusterUrl))
          = normalizeClusterUrl(config[i].clusterUrl)
  /\ mev.op = "callTool" =>
        normalizeClusterUrl(normalizeClusterUrl(mev.url)) = normalizeClusterUrl(mev.url)

\* The first mapping of the configuration whose URL normalizes to key.
FirstMapping(key) ==
  config[CHOOSE i \in 1..Len(config) :
            /\ normalizeClusterUrl(config[i].clusterUrl) = key
            /\ \A j \in 1..(i - 1) : normalizeClusterUrl(config[j].clusterUrl) # key]

\* C27: once initializeAll has run, the map holds one entry for each distinct
\* normalized URL of the configuration and no other, the entry carries the
\* first mapping with that normalized URL, and one child was spawned for it.
C27_OneEntryPerUrl ==
  mgrPhase \in { "initializing", "ready" } =>
     /\ \A i, j \in 1..Len(dsMap) : dsMap[i].key = dsMap[j].key => i = j
     /\ { dsMap[i].key : i \in 1..Len(dsMap) }
          = { normalizeClusterUrl(config[i].clusterUrl) : i \in 1..Len(config) }
     /\ \A i \in 1..Len(dsMap) :
           /\ dsMap[i].mapping = FirstMapping(dsMap[i].key)
           /\ dsMap[i].spawns = 1

\* initializeAll has returned on two mappings of the same endpoint with
\* different identities: one entry, with the first identity.
C27_Witness ==
  /\ mgrPhase = "ready"
  /\ Len(config) = 2 /\ Len(dsMap) = 1
  /\ config[1].clusterUrl # config[2].clusterUrl
  /\ config[1].identity # config[2].identity
  /\ dsMap[1].mapping = config[1]

\* C28 (as stated): initializeAll returns only when the attempt of every entry
\* has finished, and then every entry is Connected or Failed; an attempt that
\* fails leaves the other entries as they are and initialization goes on until
\* the last attempt has finished.
C28_InitSettles ==
  [][ /\ mev'.op = "initializeAll" =>
           \A i \in 1..Len(dsMap') :
              /\ dsMap'[i].attempt = "none"
              /\ dsMap'[i].status \in { "Connected", "Failed" }
      /\ \A i \in 1..Len(dsMap) :
           ( dsMap[i].attempt # "none" /\ dsMap'[i].attempt = "none"
             /\ dsMap'[i].status = "Failed" ) =>
              /\ \A j \in 1..Len(dsMap) : j # i => dsMap'[j] = dsMap[j]
              /\ mgrPhase' = "ready" <=> \A j \in 1..Len(dsMap') : dsMap'[j].attempt = "none"
    ]_vars

\* C28 (amended): the same, where an entry whose child connected and exited
\* before the last attempt finished is Disconnected when initializeAll returns.
C28_InitSettlesOrExited ==
  [][ /\ mev'.op = "initializeAll" =>
           \A i \in 1..Len(dsMap') :
              /\ dsMap'[i].attempt = "none"
              /\ dsMap'[i].status \in { "Connected", "Failed", "Disconnected" }
      /\ \A i \in 1..Len(dsMap) :
           ( dsMap[i].attempt # "none" /\ dsMap'[i].attempt = "none"
             /\ dsMap'[i].status = "Failed" ) =>
              /\ \A j \in 1..Len(dsMap) : j # i => dsMap'[j] = dsMap[j]
              /\ mgrPhase' = "ready" <=> \A j \in 1..Len(dsMap') : dsMap'[j].attempt = "none"
    ]_vars

\* initializeAll has returned on two endpoints: the attempt of one failed, the
\* child of the other connected and exited while that attempt was running.
C28_Witness ==
  /\ mev.op = "initializeAll"
  /\ Len(dsMap) = 2
  /\ \E i, j \in 1..2 : dsMap[i].status = "Failed" /\ dsMap[j].status = "Disconnected"

\* The health loop's own state.
monitorVars ==
  << running, interval, tickers, reconnectBackoffs, reconnectTimers, armed >>

\* C29: after a start the loop is running, after a stop (shutdown's included)
\* it is not, and no other step changes the flag; a start on a running loop and
\* a stop on a stopped loop leave the loop's state as it is; there is one
\* ticker while the loop is running and none while it is not.
C29_StartStop ==
  [][ /\ ev'.op = "start" => running'
      /\ ev'.op = "stop" => ~running'
      /\ running' # running => ev'.op \in { "start", "stop", "shutdown" }
      /\ ( ev'.op = "start" /\ running ) => monitorVars' = monitorVars
      /\ ( ev'.op = "stop" /\ ~running ) => monitorVars' = monitorVars
      /\ tickers' = IF running' THEN 1 ELSE 0
    ]_vars

\* start was called on the running loop, which goes on with its one ticker.
C29_Witness ==
  /\ ev.op = "start" /\ ~ev.val
  /\ running /\ tickers = 1
  /\ phase = "serving"

\* C30: parsing a --mapping value with a "=" gives the URL before the first "="
\* and the identity after it; a value without "=" gives the value as URL and
\* the empty identity; a value whose URL part is empty is rejected and adds no
\* mapping.
C30_ParseMapping ==
  [][ mev'.op = "parseMapping" =>
        LET value == mev'.url
            hasEq == \E k \in 1..Len(value) : value[k] = "="
            noUrl == value = << >> \/ value[1] = "="
            added == config'[Len(config')]
        IN  IF noUrl
            THEN mev'.result.error /\ config' = config
            ELSE /\ ~mev'.result.error
                 /\ Len(config') = Len(config) + 1
                 /\ SubSeq(config', 1, Len(config)) = config
                 /\ \A k \in 1..Len(added.clusterUrl) : added.clusterUrl[k] # "="
                 /\ IF hasEq
                    THEN added.clusterUrl \o << "=" >> \o added.identity = value
                    ELSE added.clusterUrl = value /\ added.identity = << >>
    ]_vars

\* A value with two "=" was parsed: the identity holds the second.
C30_Witness ==
  /\ mev.op = "parseMapping"
  /\ ~mev.result.error
  /\ \E k \in 1..Len(config[Len(config)].identity) : config[Len(config)].identity[k] = "="
  /\ config[Len(config)].identity = << "i", "=", "2" >>

\* C31: the environment given to a child contains AZURE_CLIENT_ID equal to the
\* mapping's identity string when that identity is non-empty, and no
\* AZURE_CLIENT_ID at all when it is empty, whatever the router's own
\* environment holds.
C31_ChildIdentity ==
  mev.op = "connectDownstream" =>
    \A i \in 1..Len(dsMap) :
      LET identity == dsMap[i].mapping.identity
          env == mev.parts[i]
      IN  IF identity # << >>
          THEN Has(env, "AZURE_CLIENT_ID") /\ env["AZURE_CLIENT_ID"] = identity
          ELSE ~Has(env, "AZURE_CLIENT_ID")

\* C32: a tick pings an endpoint that is Connected and schedules nothing for it
\* yet; when the ping has returned false a reconnect is scheduled, when it has
\* returned true the stored backoff is cleared; for a Failed or Disconnected
\* endpoint the tick arms a reconnect timer if none is pending and leaves a
\* pending one alone; a Connecting endpoint is neither pinged nor scheduled.
C32_Tick ==
  [][\A u \in Urls :
       /\ (ev'.op = "tick" /\ InKeys(Cur, u)) =>
            LET st == downstreams[u].status
                waiting == [ conns |-> << [ clusterUrl |-> u, status |-> st ] >>,
                             cl |-> downstreams[u].client ]
            IN  /\ (st = "Connected" /\ Present(downstreams[u].client)) =>
                      /\ ticks' = ticks (+) SetToBag({ waiting })
                      /\ ev'.sched = << >>
                /\ (st = "Connected" /\ ~Present(downstreams[u].client)) =>
                      /\ ticks' = ticks
                      /\ reconnectTimers'[u] # 0
                /\ st \in { "Failed", "Disconnected" } =>
                      /\ ticks' = ticks
                      /\ reconnectTimers'[u] # 0
                      /\ ev'.sched = IF reconnectTimers[u] = 0 THEN << "armed" >> ELSE << >>
                      /\ Len(armed'[u]) = Len(armed[u]) + (IF reconnectTimers[u] = 0 THEN 1 ELSE 0)
                /\ st = "Connecting" =>
                      /\ ticks' = ticks
                      /\ ev'.sched = << >>
                      /\ armed' = armed /\ reconnectTimers' = reconnectTimers
       /\ (ev'.op = "ping" /\ ev'.url = u) =>
            IF ev'.val
            THEN reconnectBackoffs'[u] = 0 /\ ev'.sched = << >>
            ELSE reconnectTimers'[u] # 0 /\ ev'.sched # << >>]_vars

\* A tick has found the endpoint Failed with no timer pending and armed one.
C32_Witness ==
  \E u \in Urls :
    /\ ev.op = "tick" /\ ev.sched = << "armed" >>
    /\ downstreams[u].status = "Failed"
    /\ reconnectTimers[u] # 0

\* The teardowns of u that wait for the exit of a child they have signalled.
WaitingTeardowns(u) ==
  { Task(rc[u][i].pc, rc[u][i].p, 0) : i \in { j \in 1..Len(rc[u]) : rc[u][j].pc = "waitExit" } }
  \cup
  { Task(sd[u][i].pc, sd[u][i].p, 0) : i \in { j \in 1..Len(sd[u]) : sd[u][j].pc = "waitExit" } }

\* C33: a teardown that waits for a child's exit has sent it SIGTERM; when its
\* grace period expires with the child still alive, the child is sent SIGKILL;
\* and the teardown completes with the client and child references cleared.
C33_Teardown ==
  [][\A u \in Urls :
       /\ \A t \in WaitingTeardowns(u)' :
             procs'[u][t.p].alive => procs'[u][t.p].signal = "SIGTERM"
       /\ (ev'.op = "graceTimeout" /\ ev'.url = u) =>
             /\ \E t \in WaitingTeardowns(u) :
                   procs[u][t.p].alive => procs'[u][t.p].signal = "SIGKILL"
             /\ ~Present(downstreams'[u].client)
             /\ ~Present(downstreams'[u].process)]_vars

\* C34: the exit of a child that the supervisor's own teardown has signalled
\* (in a reconnect or in shutdown-all) does not invoke the registered exit
\* callback and schedules no reconnect.
C34_OwnTeardownSilent ==
  [][\A u \in Urls : \A p \in 1..Len(procs[u]) :
       ( /\ ev'.op = "exit" /\ ev'.url = u
         /\ procs[u][p].alive /\ ~procs'[u][p].alive
         /\ procs[u][p].killed ) =>
            /\ ev'.cb = << >>
            /\ ev'.sched = << >>
            /\ armed' = armed]_vars

\* C36: in every reachable state and on every step, a Connected endpoint has
\* consecutiveFailures 0: the status becomes Connected only with the counter
\* reset, the counter grows only with the status leaving Connected, and a ping
\* is only sent with the counter at 0.
C36_ConnectedMeansZero ==
  [][\A u \in Urls :
       /\ downstreams'[u].status = "Connected" => downstreams'[u].consecutiveFailures = 0
       /\ downstreams'[u].consecutiveFailures > downstreams[u].consecutiveFailures =>
             downstreams'[u].status # "Connected"
       /\ BagCardinality(ticks') > BagCardinality(ticks) =>
             downstreams[u].consecutiveFailures = 0]_vars

\* A reconnect has connected the endpoint: it is Connected with the counter at 0.
C36_Witness ==
  \E u \in Urls :
    /\ ev.op = "reconnect" /\ ev.val /\ ev.url = u
    /\ downstreams[u].status = "Connected"
    /\ downstreams[u].consecutiveFailures = 0
    /\ reconnectBackoffs[u] = 0

\* C37: a reconnect attempt that passes the guard is only ever started on an
\* endpoint whose status is Failed or Disconnected, never on a Connected one.
C37_NoReconnectOfHealthy ==
  [][\A u \in Urls :
       (ev'.op = "reconnectCall" /\ ev'.url = u) =>
          downstreams[u].status \in { "Failed", "Disconnected" }]_vars

\* C39: when a child exits that the record no longer refers to, because a
\* reconnect has installed a new client and child, the endpoint stays Connected
\* and keeps its client and child references.
C39_OldExitHarmless ==
  [][\A u \in Urls : \A p \in 1..Len(procs[u]) :
       ( /\ ev'.op = "exit" /\ ev'.url = u
         /\ procs[u][p].alive /\ ~procs'[u][p].alive
         /\ downstreams[u].status = "Connected"
         /\ Present(downstreams[u].process) /\ downstreams[u].process # p
         /\ Present(downstreams[u].client) /\ downstreams[u].client # p ) =>
            /\ downstreams'[u].status = "Connected"
            /\ downstreams'[u].client = downstreams[u].client
            /\ downstreams'[u].process = downstreams[u].process]_vars

\* C40: a ping that was sent on an earlier connection and fails after the
\* endpoint has been reconnected leaves consecutiveFailures of the new
\* connection and its status Connected as they are.
C40_StalePingHarmless ==
  [][\A u \in Urls : \A t \in BagToSet(ticks) :
       ( /\ ev'.op = "ping" /\ ~ev'.val /\ ev'.url = u
         /\ ticks' = ticks (-) SetToBag({ t })
         /\ downstreams[u].status = "Connected"
         /\ Present(downstreams[u].client) /\ downstreams[u].client # t.cl ) =>
            /\ downstreams'[u].consecutiveFailures = downstreams[u].consecutiveFailures
            /\ downstreams'[u].status = "Connected"]_vars

\* A reconnect of u is attempted in this step or is in flight.
Attempted(u) ==
  \/ ev.op \in { "reconnectCall", "reconnectRejected" } /\ ev.url = u
  \/ downstreams[u].reconnecting

Unhealthy(u) ==
  running /\ InKeys(Cur, u) /\ downstreams[u].status \in { "Failed", "Disconnected" }

\* C35: while the health loop runs, an endpoint that is Failed or Disconnected
\* eventually has a reconnect attempted on it, and if from some point on every
\* connect attempt succeeds, it eventually becomes Connected.
C35_Retry ==
  /\ \A u \in Urls : Unhealthy(u) ~> Attempted(u)
  /\ (<>[](ev.op = "reconnect" => ev.val)) =>
        \A u \in Urls : Unhealthy(u) ~> (downstreams[u].status = "Connected")

\* A reconnect made by the running monitor has connected the endpoint.
C35_Witness ==
  \E u \in Urls :
    /\ ev.op = "reconnect" /\ ev.val /\ ev.url = u
    /\ running
    /\ downstreams[u].status = "Connected"

\* A reconnect of u has just succeeded.
Recovered(u) == ev.op = "reconnect" /\ ev.val /\ ev.url = u

\* A child of u exits by itself, or a ping of u fails.
Disturbed(u) ==
  \/ ev.op = "exit" /\ ev.url = u /\ ev.d = 0
  \/ ev.op = "ping" /\ ev.url = u /\ ~ev.val

\* No reconnect timer is pending for u and no reconnect is attempted on it.
Quiet(u) ==
  /\ reconnectTimers[u] = 0 /\ armed[u] = << >>
  /\ ~(ev.op \in { "reconnectCall", "reconnectRejected" } /\ ev.url = u)

\* C38: once a reconnect of an endpoint has succeeded, then unless a child of
\* it exits by itself or a ping of it fails afterwards, from some time on no
\* reconnect timer is pending for it and no reconnect is attempted on it.
C38_Quiescent ==
  \A u \in Urls : [](Recovered(u) => (<>Disturbed(u) \/ <>[]Quiet(u)))
====
